---- MODULE Spec2Model ----
(***************************************************************************)
(* A model of the json-schema crate: the Context (a registry of compiled   *)
(* schemas keyed by URI), the recursive compiler Context::parse, and the   *)
(* evaluator Condition::validate.                                          *)
(***************************************************************************)
EXTENDS Integers, Sequences, FiniteSets, TLC

VARIABLES
    schemas,   \* Context.schemas: the registry, a map from URI to JsonSchemaInner
    op,        \* the last call: "new", "make_schema" or "validate"
    callUri,   \* the base URI of the last make_schema call
    callJson,  \* the document of the last make_schema call
    res,       \* the result of the last make_schema call
    pre,       \* the registry before the last make_schema call
    valUri,    \* the URI of the schema of the last validate call
    valJson,   \* the value of the last validate call
    out,       \* the outcome of the last validate call
    ncalls,    \* the number of make_schema calls made
    nvals,     \* the number of validate calls made since the last make_schema
    tasks      \* the validations in progress at the same time, step by step

vars ==
    <<schemas, op, callUri, callJson, res, pre, valUri, valJson, out, ncalls, nvals,
      tasks>>

(***************************************************************************)
(* serde_json::Value.  Every kind of value is a record with its own field  *)
(* names.  A number n + 1/2 is written with frac = TRUE.                   *)
(***************************************************************************)
JNull == [t |-> "null"]
JBool(b) == [t |-> "bool", b |-> b]
JNum(n) == [t |-> "num", n |-> n, frac |-> FALSE]
JHalf(n) == [t |-> "num", n |-> n, frac |-> TRUE]
JStr(s) == [t |-> "str", s |-> s]
JArr(a) == [t |-> "arr", a |-> a]
JObj(m) == [t |-> "obj", m |-> m]
EmptyMap == <<>>

\* Option<T>: None is the empty sequence, Some(x) the sequence <<x>>.
None == <<>>
Some(x) == <<x>>

\* serde_json::Map is a BTreeMap: iteration is in byte order of the keys.
\* KeyOrder lists, in that order, every key the documents and values use.
KeyOrder ==
    << "$id", "$ref", "$schema", "(", "0", "^b", "a", "additionalItems",
       "additionalProperties", "allOf", "anyOf", "b", "const", "contains",
       "default", "definitions", "dependencies", "description", "enum",
       "examples", "exclusiveMaximum", "exclusiveMinimum", "foo", "format",
       "items", "maxItems", "maxLength", "maxProperties", "maximum",
       "minItems", "minLength", "minProperties", "minimum", "multipleOf",
       "not", "oneOf", "pattern", "patternProperties", "properties",
       "propertyNames", "required", "title", "type", "uniqueItems" >>

SortedKeys(m) == SelectSeq(KeyOrder, LAMBDA k : k \in DOMAIN m)

\* Number comparison and Number::as_u64.
NumKey(x) == 2 * x.n + (IF x.frac THEN 1 ELSE 0)
IsU64(x) == ~x.frac /\ x.n >= 0

(***************************************************************************)
(* url::Url.  base is the URL without its fragment; kind tells whether the *)
(* fragment is absent ("none"), a JSON pointer ("ptr", with its components *)
(* in ptr) or some other text ("raw").                                     *)
(***************************************************************************)
Uri(base, kind, ptr) == [base |-> base, kind |-> kind, ptr |-> ptr]

DraftUri == "http://json-schema.org/draft-06/schema#"
METASCHEMA_URI == Uri("http://json-schema.org/draft-06/schema", "ptr", <<>>)

\* Url::parse on the strings the documents use; ok = FALSE is a ParseError.
UrlParse(s) ==
    CASE s = DraftUri -> [ok |-> TRUE, url |-> METASCHEMA_URI]
      [] s = "http://x/s" -> [ok |-> TRUE, url |-> Uri("http://x/s", "none", <<>>)]
      [] s = "http://x/t#foo" -> [ok |-> TRUE, url |-> Uri("http://x/t", "raw", <<>>)]
      [] s = "file:///t#/0/schema" ->
            [ok |-> TRUE, url |-> Uri("file:///t", "ptr", <<"0", "schema">>)]
      [] OTHER -> [ok |-> FALSE, url |-> METASCHEMA_URI]

\* Url::join on the `$ref` strings the documents use: a reference that is
\* only a fragment replaces the fragment of the base, an absolute URL
\* replaces the base, and "http://[" cannot be parsed.
UrlJoin(id, r) ==
    CASE r = "#" -> [ok |-> TRUE, url |-> Uri(id.base, "ptr", <<>>)]
      [] r = "#/definitions/a" ->
            [ok |-> TRUE, url |-> Uri(id.base, "ptr", <<"definitions", "a">>)]
      [] r = "#/a" -> [ok |-> TRUE, url |-> Uri(id.base, "ptr", <<"a">>)]
      [] r = "#/b" -> [ok |-> TRUE, url |-> Uri(id.base, "ptr", <<"b">>)]
      [] OTHER -> UrlParse(r)

\* "/".parse::<JsonPointer>(): the pointer with one empty component.
DefaultPtr == <<"">>

\* push_uri that also moves the URI to another document.
push_uri_other_base(uri, component) ==
    Uri("http://x/t", "ptr",
        Append(IF uri.kind = "ptr" THEN uri.ptr ELSE DefaultPtr, component))

\* push_uri: appends a component to the JSON pointer in the fragment; a
\* fragment that is absent or not a JSON pointer is replaced by "/".
push_uri(uri, component) ==
    Uri(uri.base, "ptr",
        Append(IF uri.kind = "ptr" THEN uri.ptr ELSE DefaultPtr, component))

(***************************************************************************)
(* JsonSchemaInner, Validator and Condition.                               *)
(***************************************************************************)
Inner(title, description, validator) ==
    [title |-> title, description |-> description, validator |-> validator]

Anything == [k |-> "Anything"]
Nothing == [k |-> "Nothing"]
Conditions(cs) == [k |-> "Conditions", conds |-> cs]
Reference(u) == [k |-> "Reference", ref |-> u]

CType(ts) == [c |-> "Type", types |-> ts]
CAllOf(us) == [c |-> "AllOf", uris |-> us]
CAnyOf(us) == [c |-> "AnyOf", uris |-> us]
CConst(v) == [c |-> "Const", v |-> v]
CContains(u) == [c |-> "Contains", uri |-> u]
CNum(kind, num) == [c |-> kind, num |-> num]
CNat(kind, n) == [c |-> kind, n |-> n]
CPattern(re) == [c |-> "Pattern", re |-> re]
CRequired(names) == [c |-> "Required", names |-> names]
CItems(items, additional) ==
    [c |-> "Items", items |-> items, additional |-> additional]
CProperties(props, patterns, additional) ==
    [c |-> "Properties", props |-> props, patterns |-> patterns,
     additional |-> additional]

\* Condition::priority.
priority(c) ==
    CASE c.c = "Type" -> 0
      [] c.c \in {"ExclusiveMaximum", "ExclusiveMinimum", "MaxLength",
                  "Maximum", "MinLength", "Minimum", "Required"} -> 10
      [] c.c = "Properties" -> 20
      [] c.c \in {"AllOf", "AnyOf"} -> 100
      [] OTHER -> 1000

\* SortByPriority that leaves the conditions in the order they were pushed.
SortByPriority_unsorted(cs) == cs

\* conditions.sort_by_key(|c| c.priority()): a stable sort.
RECURSIVE InsertByPriority(_, _)
InsertByPriority(sorted, c) ==
    IF sorted = <<>> THEN <<c>>
    ELSE IF priority(sorted[Len(sorted)]) <= priority(c)
         THEN Append(sorted, c)
         ELSE Append(InsertByPriority(SubSeq(sorted, 1, Len(sorted) - 1), c),
                     sorted[Len(sorted)])

RECURSIVE SortByPriority(_)
SortByPriority(cs) ==
    IF cs = <<>> THEN <<>>
    ELSE InsertByPriority(SortByPriority(SubSeq(cs, 1, Len(cs) - 1)), cs[Len(cs)])

\* Type::from_string.
TypeNames == {"null", "boolean", "number", "integer", "string", "array", "object"}

\* str::parse::<Regex>() on the patterns the documents use: "(" is the one
\* that does not compile.
RegexOk(s) == s # "("

\* Regex::is_match (an unanchored search) on the patterns and strings used.
RegexMatch(re, s) ==
    CASE re = "a" -> s \in {"a", "ab", "abc", "abcd"}
      [] re = "b" -> s \in {"b", "ab", "abc", "abcd"}
      [] re = "^b" -> s \in {"b"}
      [] re = "0" -> s \in {"0"}
      [] OTHER -> FALSE

(***************************************************************************)
(* The registry: Context.schemas, a map from URI to JsonSchemaInner.       *)
(***************************************************************************)
\* put that removes the entry of a URI that is already a key instead of
\* replacing it.
put_remove_existing(reg, uri, schema) ==
    IF uri \in DOMAIN reg THEN [u \in DOMAIN reg \ {uri} |-> reg[u]]
    ELSE [u \in DOMAIN reg \cup {uri} |-> IF u = uri THEN schema ELSE reg[u]]

\* A put into a registry that keeps the last schema only.
put_only_latest(reg, uri, schema) == uri :> schema

\* Context::put.
put(reg, uri, schema) ==
    [u \in DOMAIN reg \cup {uri} |-> IF u = uri THEN schema ELSE reg[u]]

(***************************************************************************)
(* Context::parse.  A call returns the registry as the call left it, and   *)
(* Ok(uri), Err(e) for a FromValueError, or a panic (unimplemented!()).    *)
(***************************************************************************)
POk(reg, uri) == [reg |-> reg, k |-> "Ok", uri |-> uri]
PErr(reg, e, kw) == [reg |-> reg, k |-> "Err", e |-> e, kw |-> kw]
PPanic(reg) == [reg |-> reg, k |-> "panic"]

\* The result of a step that builds conditions or a list of child URIs.
SOk(reg, val) == [reg |-> reg, k |-> "Ok", val |-> val]

Child(uri, key, json) == [uri |-> uri, key |-> key, json |-> json]

\* The keys of the `for (k, v) in obj` loop that push no condition.
IgnoredKeys ==
    { "additionalItems", "items", "additionalProperties", "patternProperties",
      "properties", "definitions", "$schema", "$ref", "$id", "title",
      "description", "default", "examples", "format" }

\* The `?` of Rust: a result that is not Ok is returned as it is, and
\* otherwise the computation F goes on with it.
Bind(r, F(_)) == IF r.k # "Ok" THEN r ELSE F(r)

RECURSIVE parse(_, _, _, _)
RECURSIVE ParseList(_, _, _, _)
RECURSIVE ParseRest(_, _, _, _, _, _)

\* children.map(|c| self.parse(uri, c, depth + 1)).collect::<Result<_, _>>():
\* the children are compiled in order up to the first error.  With checkRe
\* the key of each child is compiled as a regex after the child itself.
ParseList(reg, children, depth, checkRe) ==
    IF children = <<>> THEN SOk(reg, <<>>)
    ELSE Bind(ParseList(reg, SubSeq(children, 1, Len(children) - 1), depth, checkRe),
              LAMBDA init :
                Bind(parse(init.reg, children[Len(children)].uri,
                           children[Len(children)].json, depth),
                     LAMBDA r :
                       IF checkRe /\ ~RegexOk(children[Len(children)].key)
                       THEN PErr(r.reg, "BadPattern", "patternProperties")
                       ELSE SOk(r.reg, Append(init.val, r.uri))))

\* The children of an array keyword, under push_uri(uri, i).
IndexChildren(uri, arr) ==
    [i \in 1..Len(arr) |-> Child(push_uri(uri, ToString(i - 1)), "", arr[i])]

\* ParseItems that compiles `additionalItems` after a single `items` schema
\* too, and lets it replace the trailing schema.
ParseItems_single_with_additional(reg, id, obj, depth) ==
    IF "items" \notin DOMAIN obj THEN SOk(reg, <<>>)
    ELSE IF obj["items"].t = "arr"
    THEN Bind(ParseList(reg, IndexChildren(push_uri(id, "items"), obj["items"].a),
                        depth + 1, FALSE),
              LAMBDA items :
                IF "additionalItems" \in DOMAIN obj
                THEN Bind(parse(items.reg, push_uri(id, "additionalItems"),
                                obj["additionalItems"], depth + 1),
                          LAMBDA a : SOk(a.reg, <<CItems(items.val, Some(a.uri))>>))
                ELSE SOk(items.reg, <<CItems(items.val, None)>>))
    ELSE Bind(parse(reg, push_uri(id, "items"), obj["items"], depth + 1),
              LAMBDA r :
                IF "additionalItems" \in DOMAIN obj
                THEN Bind(parse(r.reg, push_uri(id, "additionalItems"),
                                obj["additionalItems"], depth + 1),
                          LAMBDA a : SOk(a.reg, <<CItems(<<>>, Some(a.uri))>>))
                ELSE SOk(r.reg, <<CItems(<<>>, Some(r.uri))>>))

\* `items` and `additionalItems` (parse.rs 83-101): val is the list of the
\* conditions pushed, empty or one Items condition.
ParseItems(reg, id, obj, depth) ==
    IF "items" \notin DOMAIN obj THEN SOk(reg, <<>>)
    ELSE IF obj["items"].t = "arr"
    THEN Bind(ParseList(reg, IndexChildren(push_uri(id, "items"), obj["items"].a),
                        depth + 1, FALSE),
              LAMBDA items :
                IF "additionalItems" \in DOMAIN obj
                THEN Bind(parse(items.reg, push_uri(id, "additionalItems"),
                                obj["additionalItems"], depth + 1),
                          LAMBDA a : SOk(a.reg, <<CItems(items.val, Some(a.uri))>>))
                ELSE SOk(items.reg, <<CItems(items.val, None)>>))
    ELSE Bind(parse(reg, push_uri(id, "items"), obj["items"], depth + 1),
              LAMBDA r : SOk(r.reg, <<CItems(<<>>, Some(r.uri))>>))

\* The children of `properties` or `patternProperties`, in key order, each
\* under push_uri(id, k).
MemberChildren(id, m) ==
    LET ks == SortedKeys(m)
    IN  [i \in 1..Len(ks) |-> Child(push_uri(id, ks[i]), ks[i], m[ks[i]])]

\* The map collected from the keys and the URIs of the compiled children.
CollectMap(m, uris) ==
    LET ks == SortedKeys(m)
    IN  [k \in DOMAIN m |-> uris[CHOOSE i \in 1..Len(ks) : ks[i] = k]]

\* The children of a keyword whose value must be an object, or no child when
\* the keyword is absent.
ParseMembers(reg, id, obj, k, depth, checkRe) ==
    IF k \notin DOMAIN obj THEN SOk(reg, <<>>)
    ELSE IF obj[k].t # "obj" THEN PErr(reg, "InvalidKeywordType", k)
    ELSE ParseList(reg, MemberChildren(id, obj[k].m), depth + 1, checkRe)

\* The child of `additionalProperties`: val is an Option<Url>.
ParseAdditional(reg, id, obj, depth) ==
    IF "additionalProperties" \notin DOMAIN obj THEN SOk(reg, None)
    ELSE Bind(parse(reg, push_uri(id, "additionalProperties"),
                    obj["additionalProperties"], depth + 1),
              LAMBDA r : SOk(r.reg, Some(r.uri)))

\* `properties`, `patternProperties` and `additionalProperties`
\* (parse.rs 104-135).  Collecting two or more patterns into the
\* BTreeMap<RegexWrapper, Url> calls RegexWrapper::cmp, which is
\* unimplemented!() (condition.rs 340-344).
ParseProperties(reg, id, obj, depth) ==
    Bind(ParseMembers(reg, id, obj, "properties", depth, FALSE),
         LAMBDA p :
           Bind(ParseMembers(p.reg, id, obj, "patternProperties", depth, TRUE),
                LAMBDA pp :
                  IF Len(pp.val) >= 2 THEN PPanic(pp.reg)
                  ELSE Bind(ParseAdditional(pp.reg, id, obj, depth),
                            LAMBDA ap :
                              IF \E k \in {"properties", "patternProperties",
                                           "additionalProperties"} : k \in DOMAIN obj
                              THEN SOk(ap.reg,
                                       <<CProperties(
                                           IF "properties" \in DOMAIN obj
                                           THEN CollectMap(obj["properties"].m, p.val)
                                           ELSE EmptyMap,
                                           IF "patternProperties" \in DOMAIN obj
                                           THEN CollectMap(obj["patternProperties"].m,
                                                           pp.val)
                                           ELSE EmptyMap,
                                           ap.val)>>)
                              ELSE SOk(ap.reg, <<>>))))

\* `type` (parse.rs 231-253).
ParseType(reg, v) ==
    CASE v.t = "arr" ->
            IF \A i \in 1..Len(v.a) : v.a[i].t = "str" /\ v.a[i].s \in TypeNames
            THEN SOk(reg, <<CType([i \in 1..Len(v.a) |-> v.a[i].s])>>)
            ELSE PErr(reg, "InvalidKeywordValue", "type")
      [] v.t = "str" ->
            IF v.s \in TypeNames
            THEN SOk(reg, <<CType(<<v.s>>)>>)
            ELSE PErr(reg, "InvalidKeywordValue", "type")
      [] OTHER -> PErr(reg, "InvalidKeywordType", "type")

\* A keyword whose value must be a number (parse.rs 165-174, 184-188, 207-211).
ParseNumber(reg, k, kind, v) ==
    IF v.t = "num" THEN SOk(reg, <<CNum(kind, v)>>)
    ELSE PErr(reg, "InvalidKeywordType", k)

\* A keyword whose value must be a u64 (parse.rs 175-183, 189-206).
ParseU64(reg, k, kind, v) ==
    IF v.t = "num" /\ IsU64(v) THEN SOk(reg, <<CNat(kind, v.n)>>)
    ELSE PErr(reg, "InvalidKeywordType", k)

\* The keys of the loop that are neither a condition nor ignored
\* (parse.rs 262-265): println! and unimplemented!().
UnknownKey(reg, k) == PPanic(reg)

\* One turn of `for (k, v) in obj` (parse.rs 138-267): val is the list of
\* the conditions the key pushes.
ParseKey(reg, id, depth, k, v) ==
    CASE k \in {"allOf", "anyOf"} ->
            IF v.t = "arr"
            THEN Bind(ParseList(reg, IndexChildren(push_uri(id, k), v.a),
                                depth + 1, FALSE),
                      LAMBDA r : SOk(r.reg, <<IF k = "allOf" THEN CAllOf(r.val)
                                                            ELSE CAnyOf(r.val)>>))
            ELSE PErr(reg, "InvalidKeywordType", k)
      [] k = "const" -> SOk(reg, <<CConst(v)>>)
      [] k = "contains" ->
            Bind(parse(reg, push_uri(id, "contains"), v, depth + 1),
                 LAMBDA r : SOk(r.reg, <<CContains(r.uri)>>))
      [] k = "exclusiveMaximum" -> ParseNumber(reg, k, "ExclusiveMaximum", v)
      [] k = "exclusiveMinimum" -> ParseNumber(reg, k, "ExclusiveMinimum", v)
      [] k = "maxLength" -> ParseU64(reg, k, "MaxLength", v)
      [] k = "maximum" -> ParseNumber(reg, k, "Maximum", v)
      [] k = "minItems" -> ParseU64(reg, k, "MinItems", v)
      [] k = "minLength" -> ParseU64(reg, k, "MinLength", v)
      [] k = "minimum" -> ParseNumber(reg, k, "Minimum", v)
      [] k = "pattern" ->
            IF v.t # "str" THEN PErr(reg, "InvalidKeywordType", k)
            ELSE IF ~RegexOk(v.s) THEN PErr(reg, "BadPattern", k)
            ELSE SOk(reg, <<CPattern(v.s)>>)
      [] k = "required" ->
            IF v.t # "arr" THEN PErr(reg, "InvalidKeywordType", k)
            ELSE IF \E i \in 1..Len(v.a) : v.a[i].t # "str"
            THEN PErr(reg, "InvalidKeywordType", k)
            ELSE SOk(reg, <<CRequired([i \in 1..Len(v.a) |-> v.a[i].s])>>)
      [] k = "type" -> ParseType(reg, v)
      [] k \in IgnoredKeys -> SOk(reg, <<>>)
      [] OTHER -> UnknownKey(reg, k)

\* The loop over the remaining keys, in key order.
ParseRest(reg, id, obj, depth, keys, conds) ==
    IF keys = <<>> THEN SOk(reg, conds)
    ELSE Bind(ParseKey(reg, id, depth, Head(keys), obj[Head(keys)]),
              LAMBDA r : ParseRest(r.reg, id, obj, depth, Tail(keys), conds \o r.val))

\* The conditions of an object schema without `$ref` (parse.rs 80-269).
ParseConditions(reg, id, obj, depth) ==
    Bind(ParseItems(reg, id, obj, depth),
         LAMBDA items :
           Bind(ParseProperties(items.reg, id, obj, depth),
                LAMBDA props :
                  Bind(ParseRest(props.reg, id, obj, depth, SortedKeys(obj),
                                 items.val \o props.val),
                       LAMBDA rest : SOk(rest.reg, SortByPriority(rest.val)))))

\* An optional string keyword, `title` or `description` (parse.rs 43-63).
OptString(obj, k) == IF k \in DOMAIN obj THEN Some(obj[k].s) ELSE None

\* ParseBody that builds the conditions of the siblings of `$ref` and
\* compiles their children before it registers the Reference.
ParseBody_ref_keeps_siblings(reg, id, obj, depth) ==
    Bind(ParseConditions(reg, id, obj, depth),
         LAMBDA cs :
           IF "$ref" \notin DOMAIN obj
           THEN POk(put(cs.reg, id,
                        Inner(OptString(obj, "title"), OptString(obj, "description"),
                              Conditions(cs.val))),
                    id)
           ELSE IF obj["$ref"].t # "str"
           THEN PErr(cs.reg, "InvalidKeywordType", "$ref")
           ELSE IF ~UrlJoin(id, obj["$ref"].s).ok
           THEN PErr(cs.reg, "InvalidKeywordValue", "$ref")
           ELSE POk(put(cs.reg, id,
                        Inner(OptString(obj, "title"), OptString(obj, "description"),
                              Reference(UrlJoin(id, obj["$ref"].s).url))),
                    id))

\* ParseBody that looks the target of `$ref` up and refuses a target that
\* is not registered yet.
ParseBody_ref_needs_target(reg, id, obj, depth) ==
    IF "$ref" \in DOMAIN obj
    THEN IF obj["$ref"].t # "str"
         THEN PErr(reg, "InvalidKeywordType", "$ref")
         ELSE IF ~UrlJoin(id, obj["$ref"].s).ok
                 \/ UrlJoin(id, obj["$ref"].s).url \notin DOMAIN reg
         THEN PErr(reg, "InvalidKeywordValue", "$ref")
         ELSE POk(put(reg, id,
                      Inner(OptString(obj, "title"), OptString(obj, "description"),
                            Reference(UrlJoin(id, obj["$ref"].s).url))),
                  id)
    ELSE Bind(ParseConditions(reg, id, obj, depth),
              LAMBDA cs :
                POk(put(cs.reg, id,
                        Inner(OptString(obj, "title"), OptString(obj, "description"),
                              Conditions(cs.val))),
                    id))

\* ParseBody that registers the node before it registers its children.
ParseBody_put_first(reg, id, obj, depth) ==
    IF "$ref" \in DOMAIN obj
    THEN IF obj["$ref"].t # "str"
         THEN PErr(reg, "InvalidKeywordType", "$ref")
         ELSE IF ~UrlJoin(id, obj["$ref"].s).ok
         THEN PErr(reg, "InvalidKeywordValue", "$ref")
         ELSE POk(put(reg, id,
                      Inner(OptString(obj, "title"), OptString(obj, "description"),
                            Reference(UrlJoin(id, obj["$ref"].s).url))),
                  id)
    ELSE Bind(ParseConditions(reg, id, obj, depth),
              LAMBDA cs :
                POk(ParseConditions(
                        put(reg, id,
                            Inner(OptString(obj, "title"), OptString(obj, "description"),
                                  Conditions(cs.val))),
                        id, obj, depth).reg,
                    id))

\* `$ref` (parse.rs 70-78), or else the conditions, and the put of the node
\* under its id (parse.rs 274-279).
ParseBody(reg, id, obj, depth) ==
    IF "$ref" \in DOMAIN obj
    THEN IF obj["$ref"].t # "str"
         THEN PErr(reg, "InvalidKeywordType", "$ref")
         ELSE IF ~UrlJoin(id, obj["$ref"].s).ok
         THEN PErr(reg, "InvalidKeywordValue", "$ref")
         ELSE POk(put(reg, id,
                      Inner(OptString(obj, "title"), OptString(obj, "description"),
                            Reference(UrlJoin(id, obj["$ref"].s).url))),
                  id)
    ELSE Bind(ParseConditions(reg, id, obj, depth),
              LAMBDA cs :
                POk(put(cs.reg, id,
                        Inner(OptString(obj, "title"), OptString(obj, "description"),
                              Conditions(cs.val))),
                    id))

\* ParseObject that reads `$id` before it looks at `$schema`.
ParseObject_id_first(reg, id, obj, depth) ==
    LET has(k) == k \in DOMAIN obj
    IN
    IF has("$id") /\ obj["$id"].t # "str"
    THEN PErr(reg, "InvalidKeywordType", "$id")
    ELSE IF has("$id") /\ ~UrlParse(obj["$id"].s).ok
    THEN PErr(reg, "InvalidId", "$id")
    ELSE IF has("$schema") /\ depth > 0
    THEN PErr(reg, "SubschemaUsesSchemaKeyword", "$schema")
    ELSE IF has("$schema") /\ obj["$schema"].t # "str"
    THEN PErr(reg, "InvalidKeywordType", "$schema")
    ELSE IF has("$schema") /\ obj["$schema"].s # DraftUri
    THEN PErr(reg, "UnknownSchemaVersion", "$schema")
    ELSE IF has("title") /\ obj["title"].t # "str"
    THEN PErr(reg, "InvalidKeywordType", "title")
    ELSE IF has("description") /\ obj["description"].t # "str"
    THEN PErr(reg, "InvalidKeywordType", "description")
    ELSE ParseBody(reg, IF has("$id") THEN UrlParse(obj["$id"].s).url ELSE id,
                   obj, depth)

\* ParseObject that checks `$id` and then keeps the URI it was given.
ParseObject_id_ignored(reg, id, obj, depth) ==
    LET has(k) == k \in DOMAIN obj
    IN
    IF has("$schema") /\ depth > 0
    THEN PErr(reg, "SubschemaUsesSchemaKeyword", "$schema")
    ELSE IF has("$schema") /\ obj["$schema"].t # "str"
    THEN PErr(reg, "InvalidKeywordType", "$schema")
    ELSE IF has("$schema") /\ obj["$schema"].s # DraftUri
    THEN PErr(reg, "UnknownSchemaVersion", "$schema")
    ELSE IF has("$id") /\ obj["$id"].t # "str"
    THEN PErr(reg, "InvalidKeywordType", "$id")
    ELSE IF has("$id") /\ ~UrlParse(obj["$id"].s).ok
    THEN PErr(reg, "InvalidId", "$id")
    ELSE IF has("title") /\ obj["title"].t # "str"
    THEN PErr(reg, "InvalidKeywordType", "title")
    ELSE IF has("description") /\ obj["description"].t # "str"
    THEN PErr(reg, "InvalidKeywordType", "description")
    ELSE ParseBody(reg, id, obj, depth)

\* An object schema (parse.rs 12-271).
ParseObject(reg, id, obj, depth) ==
    LET has(k) == k \in DOMAIN obj
    IN
    IF has("$schema") /\ depth > 0
    THEN PErr(reg, "SubschemaUsesSchemaKeyword", "$schema")
    ELSE IF has("$schema") /\ obj["$schema"].t # "str"
    THEN PErr(reg, "InvalidKeywordType", "$schema")
    ELSE IF has("$schema") /\ obj["$schema"].s # DraftUri
    THEN PErr(reg, "UnknownSchemaVersion", "$schema")
    ELSE IF has("$id") /\ obj["$id"].t # "str"
    THEN PErr(reg, "InvalidKeywordType", "$id")
    ELSE IF has("$id") /\ ~UrlParse(obj["$id"].s).ok
    THEN PErr(reg, "InvalidId", "$id")
    ELSE IF has("title") /\ obj["title"].t # "str"
    THEN PErr(reg, "InvalidKeywordType", "title")
    ELSE IF has("description") /\ obj["description"].t # "str"
    THEN PErr(reg, "InvalidKeywordType", "description")
    ELSE ParseBody(reg, IF has("$id") THEN UrlParse(obj["$id"].s).url ELSE id,
                   obj, depth)

\* ParseBool that returns the URI of a boolean schema and registers nothing.
ParseBool_unregistered(reg, id, json) == POk(reg, id)

\* ParseBool with the two validators exchanged; it differs from ParseBool on
\* every boolean schema.
ParseBool_swapped(reg, id, json) ==
    POk(put(reg, id, Inner(None, None, IF json.b THEN Nothing ELSE Anything)), id)

\* The boolean schemas (parse.rs 10-11).
ParseBool(reg, id, json) ==
    POk(put(reg, id, Inner(None, None, IF json.b THEN Anything ELSE Nothing)), id)

\* Context::parse.
parse(reg, id, json, depth) ==
    CASE json.t = "bool" -> ParseBool(reg, id, json)
      [] json.t = "obj" -> ParseObject(reg, id, json.m, depth)
      [] OTHER -> PErr(reg, "InvalidSchemaType", "")

(***************************************************************************)
(* Validation.  A call returns Ok, a ValidationError, a panic, or it does  *)
(* not return ("diverge": unbounded recursion).                            *)
(***************************************************************************)
VOk == [r |-> "Ok"]
VConditionFailed(c) == [r |-> "ConditionFailed", c |-> c]
VNoValuesPass(v) == [r |-> "NoValuesPass", v |-> v]
VBadReference(u) == [r |-> "BadReference", u |-> u]
VPanic == [r |-> "panic"]
VDiverge == [r |-> "diverge"]

Check(url, json) == [url |-> url, json |-> json]

\* Type::type_of.
type_of(ty, val) ==
    CASE ty = "null" -> val.t = "null"
      [] ty = "boolean" -> val.t = "bool"
      [] ty = "number" -> val.t = "num"
      [] ty = "integer" -> val.t = "num" /\ ~val.frac
      [] ty = "string" -> val.t = "str"
      [] ty = "array" -> val.t = "arr"
      [] ty = "object" -> val.t = "obj"
      [] OTHER -> FALSE

\* The nesting depth of a value.
RECURSIVE Depth(_)
Max(S) == CHOOSE x \in S : \A y \in S : y <= x
Depth(v) ==
    CASE v.t = "arr" -> 1 + Max({0} \cup {Depth(v.a[i]) : i \in 1..Len(v.a)})
      [] v.t = "obj" -> 1 + Max({0} \cup {Depth(v.m[k]) : k \in DOMAIN v.m})
      [] OTHER -> 0

\* A chain of nested schema validations longer than Fuel(reg, json) visits
\* some (URI, sub-value) pair twice, and so never ends.
Fuel(reg, json) == Cardinality(DOMAIN reg) * (Depth(json) + 1)

\* ItemsChecks that checks the elements from the last to the first.
ItemsChecks_last_first(c, arr) ==
    LET idx == SelectSeq([i \in 1..Len(arr) |-> Len(arr) + 1 - i],
                         LAMBDA i : i <= Len(c.items) \/ c.additional # None)
    IN  [j \in 1..Len(idx) |->
            Check(IF idx[j] <= Len(c.items) THEN c.items[idx[j]] ELSE c.additional[1],
                  arr[idx[j]])]

\* Condition::Items: the schema each element is checked against
\* (condition.rs 198-204).
ItemsChecks(c, arr) ==
    LET idx == SelectSeq([i \in 1..Len(arr) |-> i],
                         LAMBDA i : i <= Len(c.items) \/ c.additional # None)
    IN  [j \in 1..Len(idx) |->
            Check(IF idx[j] <= Len(c.items) THEN c.items[idx[j]] ELSE c.additional[1],
                  arr[idx[j]])]

\* MemberChecks without line 244 of condition.rs: a member whose key only
\* matches a pattern is still checked against the additional schema.
MemberChecks_patterns_stay_additional(c, k, json) ==
    LET named == IF k \in DOMAIN c.props THEN <<Check(c.props[k], json)>> ELSE <<>>
        matching == {re \in DOMAIN c.patterns : RegexMatch(re, k)}
        pats == IF matching = {} THEN <<>>
                ELSE <<Check(c.patterns[CHOOSE re \in matching : TRUE], json)>>
        is_additional == named = <<>>
        add == IF is_additional /\ c.additional # None
               THEN <<Check(c.additional[1], json)>> ELSE <<>>
    IN  named \o pats \o add

\* Condition::Properties: the schemas one member is checked against
\* (condition.rs 236-255).  The pattern map holds at most one pattern.
MemberChecks(c, k, json) ==
    LET named == IF k \in DOMAIN c.props THEN <<Check(c.props[k], json)>> ELSE <<>>
        matching == {re \in DOMAIN c.patterns : RegexMatch(re, k)}
        pats == IF matching = {} THEN <<>>
                ELSE <<Check(c.patterns[CHOOSE re \in matching : TRUE], json)>>
        is_additional == named = <<>> /\ pats = <<>>
        add == IF is_additional /\ c.additional # None
               THEN <<Check(c.additional[1], json)>> ELSE <<>>
    IN  named \o pats \o add

RECURSIVE PropertiesChecks(_, _, _)
PropertiesChecks(c, m, keys) ==
    IF keys = <<>> THEN <<>>
    ELSE MemberChecks(c, Head(keys), m[Head(keys)])
            \o PropertiesChecks(c, m, Tail(keys))

RECURSIVE GetValidate(_, _, _, _)
RECURSIVE ValidatorValidate(_, _, _, _)
RECURSIVE ConditionValidate(_, _, _, _)
RECURSIVE RunChecks(_, _, _)
RECURSIVE RunAnyOf(_, _, _, _)
RECURSIVE RunContains(_, _, _, _)
RECURSIVE RunConditions(_, _, _, _)

\* `?` on a validation outcome: an outcome that is not Ok is returned as it
\* is, and otherwise the computation F goes on.
VBind(r, F(_)) == IF r.r # "Ok" THEN r ELSE F(r)

\* .is_ok() on a validation outcome: a call that panics or does not return
\* ends the whole validation.
IsOkOr(r, F(_)) ==
    IF r.r \in {"Ok", "panic", "diverge"} THEN [ok |-> TRUE, val |-> r] ELSE F(r)

\* RunChecks that makes only the last check of the list.
RunChecks_skip_first(reg, checks, fuel) ==
    IF checks = <<>> THEN VOk
    ELSE IF Len(checks) = 1
    THEN GetValidate(reg, checks[1].url, checks[1].json, fuel)
    ELSE RunChecks(reg, Tail(checks), fuel)

\* for ... { context.get(url).ok_or_else(BadReference)?; schema.validate(json)? }:
\* the checks are made in order and the first that is not Ok is returned.
RunChecks(reg, checks, fuel) ==
    IF checks = <<>> THEN VOk
    ELSE VBind(GetValidate(reg, checks[1].url, checks[1].json, fuel),
               LAMBDA r : RunChecks(reg, Tail(checks), fuel))

\* RunAnyOf that tries only the last schema of the list.
RunAnyOf_last_only(reg, urls, json, fuel) ==
    IF urls = <<>> THEN [ok |-> FALSE, val |-> VOk]
    ELSE IF Len(urls) > 1 THEN RunAnyOf(reg, Tail(urls), json, fuel)
    ELSE IsOkOr(GetValidate(reg, urls[1], json, fuel),
                LAMBDA r : [ok |-> FALSE, val |-> VOk])

\* Condition::AnyOf (condition.rs 174-183): val is the outcome to return
\* early, or Ok with ok = FALSE when the loop ended.
RunAnyOf(reg, urls, json, fuel) ==
    IF urls = <<>> THEN [ok |-> FALSE, val |-> VOk]
    ELSE IF urls[1] = METASCHEMA_URI THEN [ok |-> TRUE, val |-> VPanic]
    ELSE IF urls[1] \notin DOMAIN reg
    THEN [ok |-> TRUE, val |-> VBadReference(urls[1])]
    ELSE IsOkOr(GetValidate(reg, urls[1], json, fuel),
                LAMBDA r : RunAnyOf(reg, Tail(urls), json, fuel))

\* arr.iter().any(|v| schema.validate(v).is_ok()) (condition.rs 188).
RunContains(reg, uri, arr, fuel) ==
    IF arr = <<>> THEN [ok |-> FALSE, val |-> VOk]
    ELSE IsOkOr(GetValidate(reg, uri, arr[1], fuel),
                LAMBDA r : RunContains(reg, uri, Tail(arr), fuel))

\* The outcome of a condition whose match arm gave `ok` (condition.rs 269-273).
Outcome(c, ok) == IF ok THEN VOk ELSE VConditionFailed(c)

\* The outcome of AnyOf and Contains from the outcome of their loop.
LoopOutcome(c, r) == IF r.ok /\ r.val.r # "Ok" THEN r.val ELSE Outcome(c, r.ok)

\* The comparison of a numeric condition (condition.rs 192-196, 214-218,
\* 224-228).
NumericOk(kind, n, m) ==
    CASE kind = "Maximum" -> NumKey(n) <= NumKey(m)
      [] kind = "Minimum" -> NumKey(n) >= NumKey(m)
      [] kind = "ExclusiveMinimum" -> NumKey(n) > NumKey(m)

\* Condition::validate (condition.rs 164-274).
ConditionValidate(reg, c, json, fuel) ==
    CASE c.c = "AllOf" ->
            RunChecks(reg, [i \in 1..Len(c.uris) |-> Check(c.uris[i], json)], fuel)
      [] c.c = "AnyOf" -> LoopOutcome(c, RunAnyOf(reg, c.uris, json, fuel))
      [] c.c = "Const" -> Outcome(c, json = c.v)
      [] c.c = "Contains" ->
            IF json.t # "arr" THEN VOk
            ELSE IF c.uri = METASCHEMA_URI THEN VPanic
            ELSE IF c.uri \notin DOMAIN reg THEN VBadReference(c.uri)
            ELSE LoopOutcome(c, RunContains(reg, c.uri, json.a, fuel))
      [] c.c \in {"ExclusiveMinimum", "Maximum", "Minimum"} ->
            Outcome(c, json.t = "num" => NumericOk(c.c, json, c.num))
      [] c.c = "Items" ->
            IF json.t = "arr" THEN RunChecks(reg, ItemsChecks(c, json.a), fuel)
            ELSE VOk
      [] c.c = "MaxLength" -> Outcome(c, json.t = "str" => Len(json.s) <= c.n)
      [] c.c = "MinLength" -> Outcome(c, json.t = "str" => Len(json.s) >= c.n)
      [] c.c = "Pattern" -> Outcome(c, json.t = "str" => RegexMatch(c.re, json.s))
      [] c.c = "Properties" ->
            IF json.t = "obj"
            THEN RunChecks(reg, PropertiesChecks(c, json.m, SortedKeys(json.m)), fuel)
            ELSE VOk
      [] c.c = "Required" ->
            Outcome(c, json.t = "obj" =>
                         ~\E i \in 1..Len(c.names) : c.names[i] \notin DOMAIN json.m)
      [] c.c = "Type" ->
            Outcome(c, \E i \in 1..Len(c.types) : type_of(c.types[i], json))
      [] OTHER -> VPanic

\* Validator::Conditions: the conditions are checked in order and the first
\* error is returned (schema.rs 253-255).
RunConditions(reg, cs, json, fuel) ==
    IF cs = <<>> THEN VOk
    ELSE VBind(ConditionValidate(reg, cs[1], json, fuel),
               LAMBDA r : RunConditions(reg, Tail(cs), json, fuel))

\* Validator::Reference: the target is looked up in the registry and the
\* value validated against it; BadReference when it is absent.
ReferenceValidate(reg, ref, json, fuel) == GetValidate(reg, ref, json, fuel)

\* Validator::validate (schema.rs 250-261).
ValidatorValidate(reg, validator, json, fuel) ==
    CASE validator.k = "Anything" -> VOk
      [] validator.k = "Conditions" -> RunConditions(reg, validator.conds, json, fuel)
      [] validator.k = "Nothing" -> VNoValuesPass(json)
      [] validator.k = "Reference" -> ReferenceValidate(reg, validator.ref, json, fuel)

\* Context::get followed by JsonSchema::validate: get is unimplemented!()
\* for the metaschema URI (context.rs 35-36) and None for an absent URI.
GetValidate(reg, url, json, fuel) ==
    IF url = METASCHEMA_URI THEN VPanic
    ELSE IF url \notin DOMAIN reg THEN VBadReference(url)
    ELSE IF fuel = 0 THEN VDiverge
    ELSE ValidatorValidate(reg, reg[url].validator, json, fuel - 1)

(***************************************************************************)
(* The documents compiled and the values validated.                        *)
(***************************************************************************)
O1(k1, v1) == JObj(k1 :> v1)
O2(k1, v1, k2, v2) == JObj(k1 :> v1 @@ k2 :> v2)
O3(k1, v1, k2, v2, k3, v3) == JObj(k1 :> v1 @@ k2 :> v2 @@ k3 :> v3)

TypeOf(ty) == O1("type", JStr(ty))

DocTrue == JBool(TRUE)
DocFalse == JBool(FALSE)
DocNull == JNull
DocEmpty == JObj(EmptyMap)
DocType == TypeOf("string")
DocMaximum == O1("maximum", JNum(5))
DocMinimum == O1("minimum", JNum(5))
DocExclusiveMaximum == O1("exclusiveMaximum", JNum(5))
DocExclusiveMinimum == O1("exclusiveMinimum", JNum(5))
DocMultipleOf == O1("multipleOf", JNum(2))
DocMinItems == O1("minItems", JNum(1))
DocUnknown == O2("foo", JNum(1), "type", JStr("string"))
DocBadType == O2("properties", O1("a", JBool(TRUE)), "type", JNum(5))
DocCollide ==
    O2("items", TypeOf("string"), "properties", O1("items", TypeOf("number")))
DocRefDef ==
    O2("$ref", JStr("#/definitions/a"), "definitions", O1("a", TypeOf("string")))
DocDefs == O2("definitions", O1("a", TypeOf("string")), "type", JStr("object"))
DocSelfRef == O1("$ref", JStr("#"))
DocRefMeta == O1("$ref", JStr(DraftUri))
DocRefSiblings ==
    JObj("$ref" :> JStr("#/a") @@ "foo" :> JNum(1) @@ "title" :> JStr("t")
         @@ "properties" :> O1("a", JBool(TRUE)) @@ "type" :> JNum(5))
DocRefId == O2("$id", JStr("http://x/s"), "$ref", JStr("#/a"))
DocProps ==
    O2("properties", O1("a", TypeOf("number")), "additionalProperties", JBool(FALSE))
DocPatterns ==
    O3("properties", O1("b", TypeOf("number")),
       "patternProperties", O1("a", TypeOf("string")),
       "additionalProperties", JBool(FALSE))
DocNamedAndPattern ==
    O3("properties", O1("b", TypeOf("number")),
       "patternProperties", O1("^b", O1("maximum", JNum(5))),
       "additionalProperties", JBool(FALSE))
DocTwoPatterns == O1("patternProperties", O2("a", JBool(TRUE), "b", JBool(TRUE)))
DocAllOf == O1("allOf", JArr(<<TypeOf("string"), O1("minLength", JNum(3))>>))
DocAllOfOrder == O1("allOf", JArr(<<JBool(FALSE), TypeOf("string")>>))
DocAnyOf == O1("anyOf", JArr(<<TypeOf("string"), TypeOf("number")>>))
DocAnyOfEmpty == O1("anyOf", JArr(<<>>))
DocTypeMax == O2("maximum", JNum(5), "type", JStr("string"))
DocAnyOfLazy == O1("anyOf", JArr(<<TypeOf("string"), O1("minItems", JNum(1))>>))
DocItems ==
    O2("items", JArr(<<TypeOf("number")>>), "additionalItems", JBool(FALSE))
DocTypeProps == O2("type", JStr("object"), "properties", O1("a", TypeOf("string")))
DocId == O2("$id", JStr("http://x/s"), "type", JStr("string"))
DocTitle == O2("title", JStr("t"), "maxLength", JNum(3))
DocSchemaOk == O2("$schema", JStr(DraftUri), "type", JStr("string"))
DocSchemaNum == O3("$schema", JNum(5), "$id", JNum(5), "$ref", JNum(5))
DocSchemaOther == O3("$schema", JStr("http://x/s"), "title", JNum(5), "type", JNum(5))
DocSubSchema == O1("items", O1("$schema", JStr(DraftUri)))
DocPatternAllOf == O2("allOf", JArr(<<JBool(FALSE)>>), "pattern", JStr("^b"))
DocMaxLengthStr == O1("maxLength", JStr("3"))
DocMaxLengthNeg == O1("maxLength", JNum(-1))
DocMinItemsHalf == O1("minItems", JHalf(1))
DocTypeUnknown == O1("type", JStr("foo"))
DocRequiredObj == O1("required", JObj(EmptyMap))
DocItemsOpen == O1("items", JArr(<<TypeOf("number")>>))
DocItemsOrder == O2("items", JArr(<<JBool(FALSE)>>), "additionalItems", TypeOf("string"))
DocAdditionalItemsOnly == O1("additionalItems", JBool(FALSE))
DocItemsSingle == O2("items", TypeOf("string"), "additionalItems", JBool(FALSE))
DocRefS == O1("$ref", JStr("http://x/s"))
DocContains == O1("contains", TypeOf("number"))
DocChildId ==
    O1("properties", O1("a", O2("$id", JStr("http://x/s"), "items", TypeOf("string"))))

Docs ==
    { DocTrue, DocFalse, DocNull, DocEmpty, DocType, DocMaximum, DocMinimum,
      DocExclusiveMaximum, DocExclusiveMinimum, DocMultipleOf, DocMinItems,
      DocUnknown, DocBadType, DocCollide, DocRefDef, DocDefs, DocSelfRef,
      DocProps, DocPatterns, DocNamedAndPattern, DocTwoPatterns, DocAllOf,
      DocAllOfOrder, DocAnyOf, DocItems, DocTypeProps, DocId, DocTitle,
      DocAnyOfEmpty, DocAnyOfLazy, DocTypeMax, DocRefMeta, DocRefSiblings, DocRefId,
      DocSchemaOk, DocSchemaNum, DocSchemaOther, DocSubSchema,
      DocPatternAllOf, DocChildId, DocMaxLengthStr, DocMaxLengthNeg,
      DocMinItemsHalf, DocTypeUnknown, DocRequiredObj, DocItemsOpen, DocItemsOrder,
      DocAdditionalItemsOnly, DocItemsSingle, DocRefS,
      DocContains }

\* The base URIs: "http://x/r#" with an empty pointer, and "http://x/s"
\* without a fragment.
BaseR == Uri("http://x/r", "ptr", <<>>)
BaseS == Uri("http://x/s", "none", <<>>)
Bases == {BaseR, BaseS}

Values ==
    { JNull, JNum(4), JNum(5), JNum(6), JStr("ab"), JStr("abc"), JStr("abcd"),
      JArr(<<>>), JArr(<<JStr("ab")>>), JArr(<<JNum(4), JNum(4)>>),
      O1("a", JNum(1)), O2("a", JNum(1), "b", JNum(2)), O1("a", JStr("ab")),
      O1("b", JNum(6)) }

\* The number of make_schema calls of a run, and of validate calls between
\* two make_schema calls.
MaxCompiles == 2
MaxValidates == 1

NoUri == Uri("", "none", <<>>)

(***************************************************************************)
(* The calls.                                                              *)
(***************************************************************************)
\* No call has panicked or failed to return.
Alive == res.k # "panic" /\ out.r \notin {"panic", "diverge"}

\* Context { schemas: BTreeMap::new() } (context.rs 17).
Init ==
    /\ schemas = EmptyMap
    /\ op = "new"
    /\ callUri = NoUri
    /\ callJson = JNull
    /\ res = [k |-> "none"]
    /\ pre = EmptyMap
    /\ valUri = NoUri
    /\ valJson = JNull
    /\ out = [r |-> "none"]
    /\ ncalls = 0
    /\ nvals = 0
    /\ tasks = <<>>

\* What the caller of make_schema sees of its result.
Outcome_of(r) == [x \in DOMAIN r \ {"reg"} |-> r[x]]

\* Context::make_schema (context.rs 28-31): parse, then get(&uri).unwrap(),
\* which is unimplemented!() for the metaschema URI.  The call borrows the
\* Context mutably, so no handle of an earlier call is alive after it.
make_schema(reg, base_uri, json) ==
    Bind(parse(reg, base_uri, json, 0),
         LAMBDA r : IF r.uri = METASCHEMA_URI THEN PPanic(r.reg) ELSE r)

MakeSchema(base_uri, json) ==
    /\ Alive
    /\ ncalls < MaxCompiles
    /\ schemas' = make_schema(schemas, base_uri, json).reg
    /\ res' = Outcome_of(make_schema(schemas, base_uri, json))
    /\ op' = "make_schema"
    /\ callUri' = base_uri
    /\ callJson' = json
    /\ pre' = schemas
    /\ ncalls' = ncalls + 1
    /\ valUri' = NoUri
    /\ valJson' = JNull
    /\ out' = [r |-> "none"]
    /\ nvals' = 0
    /\ tasks' = tasks

\* Context::get(uri) and JsonSchema::validate(json) on the handle it returns.
validate(reg, uri, json) == GetValidate(reg, uri, json, Fuel(reg, json))

Validate(uri, json) ==
    /\ Alive
    /\ nvals < MaxValidates
    /\ uri \in DOMAIN schemas
    /\ nvals' = nvals + 1
    /\ out' = validate(schemas, uri, json)
    /\ op' = "validate"
    /\ valUri' = uri
    /\ valJson' = json
    /\ UNCHANGED <<schemas, callUri, callJson, res, pre, ncalls, tasks>>

\* METASCHEMA_VALUE: the head of the draft-06 metaschema, whose `$id` is the
\* metaschema URI.
METASCHEMA_VALUE ==
    JObj("$schema" :> JStr(DraftUri) @@ "$id" :> JStr(DraftUri)
         @@ "title" :> JStr("Core schema meta-schema")
         @@ "type" :> JArr(<<JStr("object"), JStr("boolean")>>)
         @@ "default" :> JObj(EmptyMap))

\* Context::new (context.rs 15-25): make_schema of the metaschema on the
\* empty Context, and .expect() on its result, which panics on an Err.  The
\* Context is a local of the call: a call that panics returns none.
ContextNew ==
    /\ op = "new"
    /\ op' = "Context::new"
    /\ callUri' = METASCHEMA_URI
    /\ callJson' = METASCHEMA_VALUE
    /\ pre' = schemas
    /\ res' = IF make_schema(schemas, METASCHEMA_URI, METASCHEMA_VALUE).k = "Ok"
              THEN Outcome_of(make_schema(schemas, METASCHEMA_URI, METASCHEMA_VALUE))
              ELSE [k |-> "panic"]
    /\ schemas' = IF make_schema(schemas, METASCHEMA_URI, METASCHEMA_VALUE).k = "Ok"
                  THEN make_schema(schemas, METASCHEMA_URI, METASCHEMA_VALUE).reg
                  ELSE schemas
    /\ UNCHANGED <<valUri, valJson, out, ncalls, nvals, tasks>>

Next ==
    \/ \E base_uri \in Bases, json \in Docs : MakeSchema(base_uri, json)
    \/ ContextNew
    \/ \E uri \in DOMAIN schemas, json \in Values : Validate(uri, json)

Spec == Init /\ [][Next]_vars

(***************************************************************************)
(* Several validations at the same time.  JsonSchema::validate and         *)
(* Condition::validate take the registry by shared reference (&Context),   *)
(* so threads may validate against one registry together.  A validation    *)
(* in progress is a task: its call stack, and the result its last call     *)
(* returned.  Each registry lookup, and each condition evaluated, is one   *)
(* step, and the steps of the tasks interleave freely.                     *)
(***************************************************************************)
NumTasks == 2

NoResult == [r |-> "none"]

\* The body of a `for` loop over checks that returns the first error
\* (AllOf, Items, Properties), of the loop of AnyOf and Contains that stops
\* at the first Ok, and of Validator::Conditions.
SeqFrame(checks) == [f |-> "seq", checks |-> checks]
AnyFrame(checks, c) == [f |-> "any", checks |-> checks, c |-> c]
CondsFrame(cs, json) == [f |-> "conds", cs |-> cs, json |-> json]

\* context.get(uri) followed by schema.validate(json), about to be called.
NewTask(uri, json) ==
    [uri |-> uri, json |-> json, stack |-> <<SeqFrame(<<Check(uri, json)>>)>>,
     ret |-> NoResult]

Done(t) == t.stack = <<>> /\ t.ret # NoResult

\* A panic unwinds the whole thread.
Abort(t) == [t EXCEPT !.stack = <<>>, !.ret = VPanic]

\* What a lookup leaves of the registry: Context::get takes &self.
AfterLookup_evicts(reg, url) == [u \in DOMAIN reg \ {url} |-> reg[u]]

AfterLookup(reg, url) == reg

\* The URL the task is about to look up, if its next step is a lookup.
NextLookup(t) ==
    IF t.ret = NoResult /\ t.stack # <<>> /\ Head(t.stack).f \in {"seq", "any"}
       /\ Head(t.stack).checks # <<>>
    THEN Some(Head(Head(t.stack).checks).url)
    ELSE None

\* One turn of a loop over checks: the loop ends, or the next schema is
\* looked up and Validator::validate entered (schema.rs 250-261).
TaskLookup(reg, t) ==
    LET top == Head(t.stack)
        rest == Tail(t.stack)
        h == Head(top.checks)
        popped == [top EXCEPT !.checks = Tail(@)]
        v == reg[h.url].validator
    IN  IF top.checks = <<>>
        THEN [t EXCEPT !.stack = rest,
                       !.ret = IF top.f = "seq" THEN VOk ELSE VConditionFailed(top.c)]
        ELSE IF h.url = METASCHEMA_URI THEN Abort(t)
        ELSE IF h.url \notin DOMAIN reg
        THEN [t EXCEPT !.stack = rest, !.ret = VBadReference(h.url)]
        ELSE CASE v.k = "Anything" ->
                    IF top.f = "seq" THEN [t EXCEPT !.stack = <<popped>> \o rest]
                    ELSE [t EXCEPT !.stack = rest, !.ret = VOk]
               [] v.k = "Nothing" ->
                    IF top.f = "seq"
                    THEN [t EXCEPT !.stack = rest, !.ret = VNoValuesPass(h.json)]
                    ELSE [t EXCEPT !.stack = <<popped>> \o rest]
               [] v.k = "Reference" ->
                    IF top.f = "seq"
                    THEN [t EXCEPT !.stack =
                            <<SeqFrame(<<Check(v.ref, h.json)>> \o popped.checks)>>
                                \o rest]
                    ELSE [t EXCEPT !.stack =
                            <<SeqFrame(<<Check(v.ref, h.json)>>), popped>> \o rest]
               [] v.k = "Conditions" ->
                    [t EXCEPT !.stack = <<CondsFrame(v.conds, h.json), popped>> \o rest]

\* One condition of Validator::Conditions: Condition::validate
\* (condition.rs 164-274) entered; a condition with subschemas starts its
\* loop, any other is decided at once.
TaskEvaluate(reg, t) ==
    LET top == Head(t.stack)
        rest == Tail(t.stack)
        c == Head(top.cs)
        json == top.json
        popped == [top EXCEPT !.cs = Tail(@)]
        Enter(frame) == [t EXCEPT !.stack = <<frame, popped>> \o rest]
    IN  IF top.cs = <<>> THEN [t EXCEPT !.stack = rest, !.ret = VOk]
        ELSE CASE c.c = "AllOf" ->
                    Enter(SeqFrame([i \in 1..Len(c.uris) |-> Check(c.uris[i], json)]))
               [] c.c = "AnyOf" ->
                    Enter(AnyFrame([i \in 1..Len(c.uris) |-> Check(c.uris[i], json)], c))
               [] c.c = "Items" /\ json.t = "arr" ->
                    Enter(SeqFrame(ItemsChecks(c, json.a)))
               [] c.c = "Properties" /\ json.t = "obj" ->
                    Enter(SeqFrame(PropertiesChecks(c, json.m, SortedKeys(json.m))))
               [] c.c = "Contains" /\ json.t = "arr" ->
                    IF c.uri = METASCHEMA_URI THEN Abort(t)
                    ELSE IF c.uri \notin DOMAIN reg
                    THEN [t EXCEPT !.stack = rest, !.ret = VBadReference(c.uri)]
                    ELSE Enter(AnyFrame([i \in 1..Len(json.a) |->
                                            Check(c.uri, json.a[i])], c))
               [] OTHER ->
                    CASE ConditionValidate(reg, c, json, 0) = VOk ->
                            [t EXCEPT !.stack = <<popped>> \o rest]
                      [] ConditionValidate(reg, c, json, 0) = VPanic -> Abort(t)
                      [] OTHER ->
                            [t EXCEPT !.stack = rest,
                                      !.ret = ConditionValidate(reg, c, json, 0)]

\* A call returns to its caller: `?` passes an error on and goes on after
\* Ok; is_ok() stops the loop at Ok and goes on after an error.
TaskReturn(t) ==
    LET top == Head(t.stack)
        rest == Tail(t.stack)
    IN  IF (top.f = "any") = (t.ret = VOk)
        THEN [t EXCEPT !.stack = rest]
        ELSE [t EXCEPT !.ret = NoResult]

\* The values the concurrent validations are run on.
ConcValues ==
    {JNull, JNum(5), JNum(6), JStr("ab"), JArr(<<JNum(4), JNum(4)>>),
     O2("a", JNum(1), "b", JNum(2))}

\* The registries they run over: one document compiled into a new Context.
ConcRegistries ==
    {make_schema(EmptyMap, BaseR, d).reg :
        d \in {x \in Docs : make_schema(EmptyMap, BaseR, x).k = "Ok"}}

InitConc ==
    /\ schemas \in ConcRegistries
    /\ pre = schemas
    /\ tasks \in [1..NumTasks ->
                    {NewTask(u, v) : u \in DOMAIN schemas, v \in ConcValues}]
    /\ op = "new"
    /\ callUri = NoUri
    /\ callJson = JNull
    /\ res = [k |-> "none"]
    /\ valUri = NoUri
    /\ valJson = JNull
    /\ out = [r |-> "none"]
    /\ ncalls = 0
    /\ nvals = 0

Lookup(i) ==
    /\ tasks[i].ret = NoResult
    /\ tasks[i].stack # <<>>
    /\ Head(tasks[i].stack).f \in {"seq", "any"}
    /\ tasks' = [tasks EXCEPT ![i] = TaskLookup(schemas, tasks[i])]
    /\ schemas' = IF NextLookup(tasks[i]) = None THEN schemas
                  ELSE AfterLookup(schemas, NextLookup(tasks[i])[1])
    /\ UNCHANGED <<op, callUri, callJson, res, pre, valUri, valJson, out, ncalls, nvals>>

Evaluate(i) ==
    /\ tasks[i].ret = NoResult
    /\ tasks[i].stack # <<>>
    /\ Head(tasks[i].stack).f = "conds"
    /\ tasks' = [tasks EXCEPT ![i] = TaskEvaluate(schemas, tasks[i])]
    /\ UNCHANGED <<schemas, op, callUri, callJson, res, pre, valUri, valJson, out,
                   ncalls, nvals>>

Return(i) ==
    /\ tasks[i].ret # NoResult
    /\ tasks[i].stack # <<>>
    /\ tasks' = [tasks EXCEPT ![i] = TaskReturn(tasks[i])]
    /\ UNCHANGED <<schemas, op, callUri, callJson, res, pre, valUri, valJson, out,
                   ncalls, nvals>>

NextConc ==
    \/ \E i \in 1..NumTasks : Lookup(i)
    \/ \E i \in 1..NumTasks : Evaluate(i)
    \/ \E i \in 1..NumTasks : Return(i)

SpecConc == InitConc /\ [][NextConc]_vars

(***************************************************************************)
(* Properties.                                                             *)
(***************************************************************************)
\* The conditions of the node registered under uri, or none when the node
\* has another validator.
CondsAt(reg, uri) ==
    IF reg[uri].validator.k = "Conditions" THEN reg[uri].validator.conds ELSE <<>>

\* The call just made, or the call before the validation just made, was a
\* make_schema of json that returned Ok.
Compiled(json) == op # "new" /\ callJson = json /\ res.k = "Ok"

\* The validation just made was of value against the root of the document
\* json compiled by the call before it.
Validated(json, value) ==
    op = "validate" /\ Compiled(json) /\ valUri = res.uri /\ valJson = value

\* C1: a make_schema call that returns a FromValueError leaves the registry
\* as it was before the call: no node of the failed document has been
\* inserted or replaced.
C1_AtomicRegistration ==
    (op = "make_schema" /\ res.k = "Err") => schemas = pre

RECURSIVE UsesId(_)
\* Some object of the document has an `$id` member.
UsesId(json) ==
    CASE json.t = "obj" ->
            "$id" \in DOMAIN json.m \/ \E k \in DOMAIN json.m : UsesId(json.m[k])
      [] json.t = "arr" -> \E i \in 1..Len(json.a) : UsesId(json.a[i])
      [] OTHER -> FALSE

\* The URIs a condition of the node compiled from obj holds, each with the
\* sub-document at the position the URI stands for.
HeldPositions(obj, c) ==
    CASE c.c = "Items" ->
            {Check(c.items[i], obj["items"].a[i]) : i \in 1..Len(c.items)}
            \cup {Check(c.additional[i],
                        IF obj["items"].t = "arr" THEN obj["additionalItems"]
                        ELSE obj["items"]) : i \in 1..Len(c.additional)}
      [] c.c = "Properties" ->
            {Check(c.props[k], obj["properties"].m[k]) : k \in DOMAIN c.props}
            \cup {Check(c.patterns[k], obj["patternProperties"].m[k]) :
                    k \in DOMAIN c.patterns}
            \cup {Check(c.additional[i], obj["additionalProperties"]) :
                    i \in 1..Len(c.additional)}
      [] c.c = "AllOf" -> {Check(c.uris[i], obj["allOf"].a[i]) : i \in 1..Len(c.uris)}
      [] c.c = "AnyOf" -> {Check(c.uris[i], obj["anyOf"].a[i]) : i \in 1..Len(c.uris)}
      [] c.c = "Contains" -> {Check(c.uri, obj["contains"])}
      [] OTHER -> {}

\* C2: after a successful compile of a document without `$id`, every URI
\* held in a condition of the root resolves to the node compiled from the
\* sub-document at exactly that position: no position's node was
\* overwritten by the node of another position.
C2_PositionsHaveDistinctUris ==
    (op = "make_schema" /\ res.k = "Ok" /\ callJson.t = "obj" /\ ~UsesId(callJson)) =>
        \A i \in 1..Len(CondsAt(schemas, res.uri)) :
            \A h \in HeldPositions(callJson.m, CondsAt(schemas, res.uri)[i]) :
                /\ h.url \in DOMAIN schemas
                /\ schemas[h.url] = parse(EmptyMap, h.url, h.json, 1).reg[h.url]

\* C3: `true` compiles to Anything and `false` to Nothing, both without
\* title and description, under the URI of the call; every value passes
\* Anything, and every value fails Nothing with NoValuesPass.
C3_BooleanSchemas ==
    /\ (op = "make_schema" /\ callJson = DocTrue) =>
            /\ res = [k |-> "Ok", uri |-> callUri]
            /\ schemas[callUri] = Inner(None, None, Anything)
    /\ (op = "make_schema" /\ callJson = DocFalse) =>
            /\ res = [k |-> "Ok", uri |-> callUri]
            /\ schemas[callUri] = Inner(None, None, Nothing)
    /\ \A uri \in DOMAIN schemas, v \in Values :
            /\ schemas[uri].validator = Anything => validate(schemas, uri, v) = VOk
            /\ schemas[uri].validator = Nothing =>
                    validate(schemas, uri, v) = VNoValuesPass(v)
    /\ op = "validate" =>
            /\ schemas[valUri].validator = Anything => out = VOk
            /\ schemas[valUri].validator = Nothing => out = VNoValuesPass(valJson)

\* A value was validated against the node compiled from `false` and failed
\* with NoValuesPass, in a registry that also holds a node compiled from
\* `true`.
C3_Witness ==
    /\ Validated(DocFalse, valJson)
    /\ out = VNoValuesPass(valJson)
    /\ \E uri \in DOMAIN schemas :
            /\ schemas[uri] = Inner(None, None, Anything)
            /\ validate(schemas, uri, valJson) = VOk

\* The keywords of the compiler's keyword table.
Keywords ==
    { "$schema", "$id", "$ref", "title", "description", "default", "examples",
      "format", "definitions", "type", "multipleOf", "maximum",
      "exclusiveMaximum", "minimum", "exclusiveMinimum", "maxLength",
      "minLength", "pattern", "items", "additionalItems", "maxItems",
      "minItems", "uniqueItems", "contains", "maxProperties", "minProperties",
      "required", "properties", "patternProperties", "additionalProperties",
      "dependencies", "propertyNames", "enum", "const", "allOf", "anyOf",
      "oneOf", "not" }

\* The object without its members whose key is no keyword.
KnownPart(json) == JObj([k \in DOMAIN json.m \cap Keywords |-> json.m[k]])

\* C4: members whose key is no keyword never make a compile fail or abort,
\* and the call does to the registry what it does for the document without
\* those members.
C4_UnknownKeywordsIgnored ==
    (op = "make_schema" /\ callJson.t = "obj" /\ ~(DOMAIN callJson.m \subseteq Keywords)) =>
        /\ res.k = "Ok"
        /\ schemas = make_schema(pre, callUri, KnownPart(callJson)).reg
        /\ res = Outcome_of(make_schema(pre, callUri, KnownPart(callJson)))

\* The Condition each validation keyword compiles to.
KeywordCondition ==
    [ type |-> "Type", multipleOf |-> "MultipleOf", maximum |-> "Maximum",
      exclusiveMaximum |-> "ExclusiveMaximum", minimum |-> "Minimum",
      exclusiveMinimum |-> "ExclusiveMinimum", maxLength |-> "MaxLength",
      minLength |-> "MinLength", pattern |-> "Pattern", items |-> "Items",
      maxItems |-> "MaxItems", minItems |-> "MinItems",
      uniqueItems |-> "UniqueItems", contains |-> "Contains",
      maxProperties |-> "MaxProperties", minProperties |-> "MinProperties",
      required |-> "Required", properties |-> "Properties",
      dependencies |-> "Dependencies", propertyNames |-> "PropertyNames",
      enum |-> "Enum", const |-> "Const", allOf |-> "AllOf", anyOf |-> "AnyOf",
      oneOf |-> "OneOf", not |-> "Not" ]

\* Documents whose members are all validation keywords with a well-typed
\* value.
WellTypedKeywordDocs ==
    { DocType, DocMaximum, DocMinimum, DocExclusiveMaximum, DocExclusiveMinimum,
      DocMultipleOf, DocMinItems, DocProps, DocAllOf, DocAnyOf, DocItems,
      DocTypeProps }

\* C5: compiling an object schema that carries a well-typed value for a
\* validation keyword returns Ok, and the conditions of the node contain the
\* Condition of that keyword.
C5_KeywordCoverage ==
    (op = "make_schema" /\ callJson \in WellTypedKeywordDocs) =>
        /\ res.k = "Ok"
        /\ \A k \in DOMAIN callJson.m \cap DOMAIN KeywordCondition :
              \E i \in 1..Len(CondsAt(schemas, res.uri)) :
                  CondsAt(schemas, res.uri)[i].c = KeywordCondition[k]

\* The URI of the entry k of the `definitions` of the node under id.
DefinitionUri(id, k) == push_uri(push_uri(id, "definitions"), k)

\* C6: after a successful compile every entry of `definitions` has a node
\* in the registry; validating a string against the compiled
\* {"$ref": "#/definitions/a", "definitions": {"a": {"type": "string"}}}
\* succeeds and validating 5 fails with ConditionFailed(Type).
C6_DefinitionsRegistered ==
    /\ (op = "make_schema" /\ res.k = "Ok" /\ callJson.t = "obj"
            /\ "definitions" \in DOMAIN callJson.m) =>
          \A k \in DOMAIN callJson.m["definitions"].m :
              DefinitionUri(res.uri, k) \in DOMAIN schemas
    /\ \A v \in Values :
          Validated(DocRefDef, v) =>
              out = IF v.t = "str" THEN VOk
                    ELSE VConditionFailed(CType(<<"string">>))

RECURSIVE RefChainLoops(_, _, _)
\* The chain of Reference nodes that starts at uri is longer than n: with n
\* the number of nodes of the registry, the chain is circular.
RefChainLoops(reg, uri, n) ==
    /\ uri \in DOMAIN reg
    /\ reg[uri].validator.k = "Reference"
    /\ (n = 0 \/ RefChainLoops(reg, reg[uri].validator.ref, n - 1))

\* C7: a validation of a value against a registered URI returns Ok,
\* ConditionFailed, NoValuesPass or BadReference; it never aborts, and it
\* fails to return only along a circular chain of `$ref` references.
C7_ValidationTotal ==
    op = "validate" =>
        \/ out.r \in {"Ok", "ConditionFailed", "NoValuesPass", "BadReference"}
        \/ /\ out.r = "diverge"
           /\ RefChainLoops(schemas, valUri, Cardinality(DOMAIN schemas))

\* The comparison each numeric condition makes between a number n and its
\* own number m.
NumericHolds(kind, n, m) ==
    CASE kind = "Maximum" -> NumKey(n) <= NumKey(m)
      [] kind = "Minimum" -> NumKey(n) >= NumKey(m)
      [] kind = "ExclusiveMaximum" -> NumKey(n) < NumKey(m)
      [] kind = "ExclusiveMinimum" -> NumKey(n) > NumKey(m)

\* C8: a condition Maximum, ExclusiveMaximum, Minimum or ExclusiveMinimum of
\* a registered node passes every value that is not a number, and passes a
\* number exactly when the comparison holds, failing with ConditionFailed
\* otherwise; MultipleOf passes every value that is not a number.
C8_NumericOrthogonality ==
    \A uri \in DOMAIN schemas :
        \A i \in 1..Len(CondsAt(schemas, uri)) :
            LET c == CondsAt(schemas, uri)[i]
            IN  /\ c.c \in {"Maximum", "ExclusiveMaximum", "Minimum",
                            "ExclusiveMinimum"} =>
                      \A v \in Values :
                          ConditionValidate(schemas, c, v, Fuel(schemas, v)) =
                              IF v.t = "num" => NumericHolds(c.c, v, c.num)
                              THEN VOk ELSE VConditionFailed(c)
                /\ c.c = "MultipleOf" =>
                      \A v \in Values :
                          v.t # "num" =>
                              ConditionValidate(schemas, c, v, Fuel(schemas, v)) = VOk

\* The first outcome of the sequence that is not Ok, or Ok when all are.
FirstFailure(outs) ==
    IF \A i \in 1..Len(outs) : outs[i].r = "Ok" THEN VOk
    ELSE outs[CHOOSE i \in 1..Len(outs) :
                  outs[i].r # "Ok" /\ \A j \in 1..(i - 1) : outs[j].r = "Ok"]

\* The schemas that Properties(named, patterns, additional) applies to the
\* member under key k: named[k] if present, then the schema of the pattern
\* that matches k, and the additional schema exactly when k is not named,
\* matches no pattern and the additional schema is present.
AppliedTo(c, k) ==
    (IF k \in DOMAIN c.props THEN <<c.props[k]>> ELSE <<>>)
    \o (IF \E re \in DOMAIN c.patterns : RegexMatch(re, k)
        THEN <<c.patterns[CHOOSE re \in DOMAIN c.patterns : RegexMatch(re, k)]>>
        ELSE <<>>)
    \o (IF /\ k \notin DOMAIN c.props
           /\ \A re \in DOMAIN c.patterns : ~RegexMatch(re, k)
           /\ c.additional # None
        THEN <<c.additional[1]>> ELSE <<>>)

RECURSIVE MemberOutcomes(_, _, _, _)
\* The outcomes of the validations of the members of the object m against
\* the schemas applied to them, member by member in key order.
MemberOutcomes(reg, c, m, keys) ==
    IF keys = <<>> THEN <<>>
    ELSE [i \in 1..Len(AppliedTo(c, Head(keys))) |->
              validate(reg, AppliedTo(c, Head(keys))[i], m[Head(keys)])]
         \o MemberOutcomes(reg, c, m, Tail(keys))

\* C9: a Properties condition of a registered node passes every value that
\* is not an object; on an object its outcome is the first failure among
\* the validations of each member against its named schema, the pattern
\* schemas that match its key and, only when neither applies, the additional
\* schema.  {"properties": {"a": {"type": "number"}},
\* "additionalProperties": false} accepts {"a": 1} and rejects
\* {"a": 1, "b": 2}.
C9_PropertiesExemption ==
    /\ \A uri \in DOMAIN schemas :
          \A i \in 1..Len(CondsAt(schemas, uri)) :
              LET c == CondsAt(schemas, uri)[i]
              IN  c.c = "Properties" =>
                      \A v \in Values :
                          ConditionValidate(schemas, c, v, Fuel(schemas, v)) =
                              IF v.t # "obj" THEN VOk
                              ELSE FirstFailure(
                                       MemberOutcomes(schemas, c, v.m, SortedKeys(v.m)))
    /\ Validated(DocProps, O1("a", JNum(1))) => out = VOk
    /\ Validated(DocProps, O2("a", JNum(1), "b", JNum(2))) =>
          out = VNoValuesPass(JNum(2))

\* {"a": 1, "b": 2} was validated against the compiled {"properties": {"a":
\* {"type": "number"}}, "additionalProperties": false} and rejected for its
\* member b, in a registry with a pattern schema that matches a key.
C9_Witness ==
    /\ Validated(DocProps, O2("a", JNum(1), "b", JNum(2)))
    /\ out = VNoValuesPass(JNum(2))
    /\ \E uri \in DOMAIN schemas :
          \E i \in 1..Len(CondsAt(schemas, uri)) :
              /\ CondsAt(schemas, uri)[i].c = "Properties"
              /\ \E re \in DOMAIN CondsAt(schemas, uri)[i].patterns :
                    RegexMatch(re, "a")

\* C10: an AllOf condition of a registered node succeeds exactly when the
\* value validates against every referenced schema, and otherwise returns,
\* unchanged, the error of the first schema in list order that fails.
\* {"allOf": [{"type": "string"}, {"minLength": 3}]} accepts "abcd" and
\* rejects "ab" and 5.
C10_AllOfConjunction ==
    /\ \A uri \in DOMAIN schemas :
          \A i \in 1..Len(CondsAt(schemas, uri)) :
              LET c == CondsAt(schemas, uri)[i]
              IN  c.c = "AllOf" =>
                      \A v \in Values :
                          LET outs == [j \in 1..Len(c.uris) |->
                                          validate(schemas, c.uris[j], v)]
                              got == ConditionValidate(schemas, c, v, Fuel(schemas, v))
                          IN  /\ got = FirstFailure(outs)
                              /\ got = VOk <=> \A j \in 1..Len(outs) : outs[j] = VOk
    /\ Validated(DocAllOf, JStr("abcd")) => out = VOk
    /\ Validated(DocAllOf, JStr("ab")) => out = VConditionFailed(CNat("MinLength", 3))
    /\ Validated(DocAllOf, JNum(5)) => out = VConditionFailed(CType(<<"string">>))

\* "ab" was validated against the compiled {"allOf": [{"type": "string"},
\* {"minLength": 3}]}: the first schema passed and the error of the second
\* was returned.
C10_Witness ==
    /\ Validated(DocAllOf, JStr("ab"))
    /\ \E c \in {CondsAt(schemas, valUri)[i] : i \in 1..Len(CondsAt(schemas, valUri))} :
          /\ c.c = "AllOf"
          /\ Len(c.uris) = 2
          /\ validate(schemas, c.uris[1], valJson) = VOk
          /\ validate(schemas, c.uris[2], valJson) = out
    /\ out = VConditionFailed(CNat("MinLength", 3))

\* The outcome is an error validate returns: neither Ok, nor an abort, nor
\* a call that does not return.
IsError(r) == r.r \notin {"Ok", "panic", "diverge"}

\* C11: an AnyOf condition of a registered node succeeds as soon as one
\* referenced schema, in list order, validates the value, whatever the
\* schemas after it would do, and fails with ConditionFailed(AnyOf) exactly
\* when no referenced schema validates, as for an empty list.
\* {"anyOf": [{"type": "string"}, {"type": "number"}]} accepts 5 and a
\* string and rejects null.
C11_AnyOfDisjunction ==
    /\ \A uri \in DOMAIN schemas :
          \A i \in 1..Len(CondsAt(schemas, uri)) :
              LET c == CondsAt(schemas, uri)[i]
              IN  c.c = "AnyOf" =>
                      \A v \in Values :
                          LET outs == [j \in 1..Len(c.uris) |->
                                          validate(schemas, c.uris[j], v)]
                              got == ConditionValidate(schemas, c, v, Fuel(schemas, v))
                          IN  /\ (\E j \in 1..Len(outs) :
                                      /\ outs[j] = VOk
                                      /\ \A k \in 1..(j - 1) : IsError(outs[k]))
                                  => got = VOk
                              /\ (\A j \in 1..Len(outs) : IsError(outs[j]))
                                  <=> got = VConditionFailed(c)
    /\ Validated(DocAnyOf, JNum(5)) => out = VOk
    /\ Validated(DocAnyOf, JStr("ab")) => out = VOk
    /\ Validated(DocAnyOf, JNull) =>
          out = VConditionFailed(CAnyOf(<<push_uri(push_uri(res.uri, "anyOf"), "0"),
                                          push_uri(push_uri(res.uri, "anyOf"), "1")>>))
    /\ Validated(DocAnyOfEmpty, valJson) => out = VConditionFailed(CAnyOf(<<>>))

\* A string was validated against the compiled {"anyOf": [{"type":
\* "string"}, {"minItems": 1}]}: the first schema validated it and the
\* validation succeeded although the second schema aborts on every value.
C11_Witness ==
    /\ Validated(DocAnyOfLazy, JStr("ab"))
    /\ out = VOk
    /\ \E c \in {CondsAt(schemas, valUri)[i] : i \in 1..Len(CondsAt(schemas, valUri))} :
          /\ c.c = "AnyOf"
          /\ validate(schemas, c.uris[1], valJson) = VOk
          /\ validate(schemas, c.uris[2], valJson) = VPanic

\* C12: in every registered node the conditions are in non-decreasing
\* priority order and a Type condition comes first, so a value that is not
\* of one of its types fails with ConditionFailed(Type) whatever the other
\* conditions are: a number against {"type": "object", "properties": ...}
\* and 6 against {"maximum": 5, "type": "string"}.
C12_FailFastOrdering ==
    /\ \A uri \in DOMAIN schemas :
          LET cs == CondsAt(schemas, uri)
          IN  /\ \A i, j \in 1..Len(cs) : i < j => priority(cs[i]) <= priority(cs[j])
              /\ \A i \in 1..Len(cs) :
                    cs[i].c = "Type" =>
                        /\ i = 1
                        /\ \A v \in Values :
                              (\A k \in 1..Len(cs[i].types) : ~type_of(cs[i].types[k], v))
                                  => validate(schemas, uri, v) = VConditionFailed(cs[i])
    /\ Validated(DocTypeProps, JNum(4)) => out = VConditionFailed(CType(<<"object">>))
    /\ Validated(DocTypeMax, JNum(6)) => out = VConditionFailed(CType(<<"string">>))

\* 6 was validated against the compiled {"maximum": 5, "type": "string"},
\* whose Maximum condition was pushed first and also fails on 6: the node
\* lists Type before Maximum and the validation failed with Type.
C12_Witness ==
    /\ Validated(DocTypeMax, JNum(6))
    /\ CondsAt(schemas, valUri) = <<CType(<<"string">>), CNum("Maximum", JNum(5))>>
    /\ ConditionValidate(schemas, CNum("Maximum", JNum(5)), valJson, 1)
          = VConditionFailed(CNum("Maximum", JNum(5)))
    /\ out = VConditionFailed(CType(<<"string">>))

HeaderOk(obj) ==
    /\ "$schema" \in DOMAIN obj => obj["$schema"] = JStr(DraftUri)
    /\ "$id" \in DOMAIN obj => obj["$id"].t = "str" /\ UrlParse(obj["$id"].s).ok
    /\ "title" \in DOMAIN obj => obj["title"].t = "str"
    /\ "description" \in DOMAIN obj => obj["description"].t = "str"

\* The effective URI of the root of a document compiled under base.
EffectiveUri(base, obj) ==
    IF "$id" \in DOMAIN obj THEN UrlParse(obj["$id"].s).url ELSE base

\* C14: compiling an object schema with a string `$ref` that resolves
\* against the effective URI of the node (its `$id`, else the URI of the
\* call) returns Ok, and all it does to the registry is to put, under the
\* effective URI, a node whose validator is Reference(resolved `$ref`): no
\* condition is built and no child is registered, whatever the sibling
\* keywords hold.
C14_RefOverridesSiblings ==
    (/\ op = "make_schema"
     /\ callJson.t = "obj"
     /\ "$ref" \in DOMAIN callJson.m
     /\ callJson.m["$ref"].t = "str"
     /\ HeaderOk(callJson.m)
     /\ UrlJoin(EffectiveUri(callUri, callJson.m), callJson.m["$ref"].s).ok) =>
        LET id == EffectiveUri(callUri, callJson.m)
            node == Inner(OptString(callJson.m, "title"),
                          OptString(callJson.m, "description"),
                          Reference(UrlJoin(id, callJson.m["$ref"].s).url))
        IN  /\ res = [k |-> "Ok", uri |-> id]
            /\ schemas = [u \in DOMAIN pre \cup {id} |->
                              IF u = id THEN node ELSE pre[u]]

\* A document with `$id`, and a document whose `$ref` has an ill-typed
\* `type`, a `properties` with a child and an unknown keyword beside it,
\* were compiled: each left one Reference node, resolved against the
\* effective URI.
C14_Witness ==
    /\ op = "make_schema"
    /\ callJson = DocRefSiblings
    /\ res.k = "Ok"
    /\ schemas[res.uri].validator = Reference(Uri(callUri.base, "ptr", <<"a">>))
    /\ \E u \in DOMAIN pre :
          /\ u # callUri
          /\ pre[u].validator = Reference(Uri("http://x/s", "ptr", <<"a">>))
    /\ Cardinality(DOMAIN schemas) = 2

\* C15: after a make_schema call that returned Ok, the same call (same
\* base URI, same document) returns the same URI and leaves the registry,
\* nodes and order of conditions included, as the first call left it.
C15_CompileIdempotent ==
    (op = "make_schema" /\ res.k = "Ok") =>
        /\ make_schema(schemas, callUri, callJson).reg = schemas
        /\ Outcome_of(make_schema(schemas, callUri, callJson)) = res

\* A document with children was compiled a second time under the same base
\* URI: the call returned the URI that is already a key and the registry
\* after the call is the registry before it.
C15_Witness ==
    /\ op = "make_schema"
    /\ ncalls = 2
    /\ res.k = "Ok"
    /\ callJson = DocAllOf
    /\ res.uri \in DOMAIN pre
    /\ CondsAt(pre, res.uri) = CondsAt(schemas, res.uri)
    /\ Len(CondsAt(pre, res.uri)) = 1
    /\ Cardinality(DOMAIN pre) = 3
    /\ schemas = pre

\* C16: validation is read-only and independent of the interleaving: while
\* several validations take their steps in any order over one registry, the
\* registry stays what it was, and a validation that has finished returned
\* what the same call returns when it runs alone.
C16_ValidationReadOnly ==
    /\ schemas = pre
    /\ \A i \in DOMAIN tasks :
          Done(tasks[i]) => tasks[i].ret = validate(pre, tasks[i].uri, tasks[i].json)

\* The first validation has finished with an error while the second, of
\* another value against the same schema, is in the middle of its own, a
\* registry lookup ahead of it.
C16_Witness ==
    /\ DOMAIN tasks = 1..NumTasks
    /\ Done(tasks[1])
    /\ tasks[1].ret.r = "ConditionFailed"
    /\ tasks[2].uri = tasks[1].uri
    /\ tasks[2].json # tasks[1].json
    /\ Len(tasks[2].stack) >= 2
    /\ NextLookup(tasks[2]) # None
    /\ validate(pre, tasks[2].uri, tasks[2].json) = VOk

\* A document the draft-06 metaschema does not accept: the metaschema has
\* "type": ["object", "boolean"] and wants the value of "type" to be a type
\* name or an array of type names.
MetaschemaRejects(json) ==
    \/ json.t \notin {"obj", "bool"}
    \/ /\ json.t = "obj"
       /\ "type" \in DOMAIN json.m
       /\ json.m["type"].t \notin {"str", "arr"}

\* C17: the metaschema gate: a document the metaschema does not accept is
\* turned down before it is compiled: the call returns
\* MetaschemaFailedToValidate and the registry is what it was.
C17_MetaschemaGate ==
    (op = "make_schema" /\ MetaschemaRejects(callJson)) =>
        /\ res.k = "Err"
        /\ res.e = "MetaschemaFailedToValidate"
        /\ schemas = pre

\* The error the `$schema` rules give for an object schema that has the
\* keyword, "none" when they give none.
SchemaError(obj, depth) ==
    IF depth > 0 THEN "SubschemaUsesSchemaKeyword"
    ELSE IF obj["$schema"].t # "str" THEN "InvalidKeywordType"
    ELSE IF obj["$schema"].s # DraftUri THEN "UnknownSchemaVersion"
    ELSE "none"

\* The one subschema of a document that has nothing but "items".
OnlyItems(json) ==
    IF json.t = "obj" /\ DOMAIN json.m = {"items"} /\ json.m["items"].t = "obj"
    THEN Some(json.m["items"].m)
    ELSE None

\* C18: the `$schema` rules: an object schema with `$schema` is refused with
\* SubschemaUsesSchemaKeyword below the root whatever the value is, at the
\* root with InvalidKeywordType when the value is not a string and with
\* UnknownSchemaVersion when it is another string than the draft-06 URI; the
\* error is about `$schema` whatever is wrong with `$id`, `title`, `$ref` or
\* the validation keywords of the same object.
C18_SchemaKeywordRules ==
    op = "make_schema" =>
        /\ (callJson.t = "obj" /\ "$schema" \in DOMAIN callJson.m
                /\ SchemaError(callJson.m, 0) # "none") =>
              /\ res.k = "Err"
              /\ res.e = SchemaError(callJson.m, 0)
              /\ res.kw = "$schema"
        /\ (OnlyItems(callJson) # None /\ "$schema" \in DOMAIN OnlyItems(callJson)[1]) =>
              /\ res.k = "Err"
              /\ res.e = SchemaError(OnlyItems(callJson)[1], 1)
              /\ res.kw = "$schema"

\* A document whose `$schema` and `$id` are both numbers was refused.
C18_Witness ==
    /\ op = "make_schema"
    /\ callJson = DocSchemaNum
    /\ res = [k |-> "Err", e |-> "InvalidKeywordType", kw |-> "$schema"]
    /\ schemas = pre

\* C19: registry monotonicity: over any sequence of compile and validate
\* calls no URI ever leaves the registry, and the registry changes (an entry
\* added or replaced) in a compile call only.
C19_RegistryMonotone ==
    [][/\ DOMAIN schemas \subseteq DOMAIN schemas'
       /\ schemas' # schemas => op' = "make_schema"]_vars

\* A second compile call has added entries to the ones of the first and
\* replaced one of them, and every URI of the first is still a key.
C19_Witness ==
    /\ op = "make_schema"
    /\ ncalls = 2
    /\ DOMAIN pre # {}
    /\ DOMAIN pre \subseteq DOMAIN schemas
    /\ DOMAIN pre # DOMAIN schemas
    /\ \E u \in DOMAIN pre : schemas[u] # pre[u]

\* The priority of each kind of condition as the table of the claim gives it.
PriorityTable(kind) ==
    CASE kind = "Type" -> 0
      [] kind \in {"Maximum", "ExclusiveMaximum", "Minimum", "ExclusiveMinimum",
                   "MaxLength", "MinLength", "Pattern", "Required"} -> 10
      [] kind = "Properties" -> 20
      [] kind \in {"AllOf", "AnyOf"} -> 100
      [] OTHER -> 1000

\* C20: the priority table: Condition::priority gives every condition of
\* every registered schema the priority the table has for its kind: 0 for
\* Type, 10 for the numeric bounds, the lengths, Pattern and Required, 20 for
\* Properties, 100 for AllOf and AnyOf, 1000 for the rest.
C20_PriorityTable ==
    \A uri \in DOMAIN schemas :
        \A i \in DOMAIN CondsAt(schemas, uri) :
            priority(CondsAt(schemas, uri)[i]) = PriorityTable(CondsAt(schemas, uri)[i].c)

\* The URI with the components of path appended to its JSON pointer.
AppendPath(uri, path) ==
    Uri(uri.base, "ptr", (IF uri.kind = "ptr" THEN uri.ptr ELSE DefaultPtr) \o path)

\* The keyword a condition with a list of subschemas was compiled from.
ListKeyword(c) == IF c.c = "AllOf" THEN "allOf" ELSE "anyOf"

\* C21: child URI paths: after a successful compile of an object document
\* without `$id` and `$ref`, the subschema of member k of `properties` is
\* registered under the URI of the root with properties/k appended to its
\* pointer, and element i of `allOf` or `anyOf` under the URI of the root
\* with allOf/i or anyOf/i appended.
C21_ChildUriPaths ==
    (op = "make_schema" /\ res.k = "Ok" /\ callJson.t = "obj" /\ ~UsesId(callJson)
        /\ "$ref" \notin DOMAIN callJson.m) =>
        \A i \in DOMAIN CondsAt(schemas, res.uri) :
            /\ CondsAt(schemas, res.uri)[i].c = "Properties" =>
                \A k \in DOMAIN CondsAt(schemas, res.uri)[i].props :
                    /\ CondsAt(schemas, res.uri)[i].props[k]
                          = AppendPath(res.uri, <<"properties", k>>)
                    /\ AppendPath(res.uri, <<"properties", k>>) \in DOMAIN schemas
            /\ CondsAt(schemas, res.uri)[i].c \in {"AllOf", "AnyOf"} =>
                \A j \in DOMAIN CondsAt(schemas, res.uri)[i].uris :
                    /\ CondsAt(schemas, res.uri)[i].uris[j]
                          = AppendPath(res.uri,
                                <<ListKeyword(CondsAt(schemas, res.uri)[i]), ToString(j - 1)>>)
                    /\ CondsAt(schemas, res.uri)[i].uris[j] \in DOMAIN schemas

\* The URI the `$id` of an object schema stands for.
IdUri(json) == UrlParse(json.m["$id"].s).url

\* The members of `properties` of the compiled document that carry an `$id`
\* of their own, other than the URI of the root.
IdMembers ==
    IF op = "make_schema" /\ res.k = "Ok" /\ callJson.t = "obj"
       /\ "$ref" \notin DOMAIN callJson.m /\ "properties" \in DOMAIN callJson.m
    THEN {k \in DOMAIN callJson.m["properties"].m :
            /\ callJson.m["properties"].m[k].t = "obj"
            /\ "$id" \in DOMAIN callJson.m["properties"].m[k].m
            /\ IdUri(callJson.m["properties"].m[k]) # res.uri}
    ELSE {}

\* The URI the Properties condition of the root holds for member k.
LinkOf(k) ==
    LET cs == SelectSeq(CondsAt(schemas, res.uri), LAMBDA c : c.c = "Properties")
    IN  IF cs # <<>> /\ k \in DOMAIN cs[1].props THEN Some(cs[1].props[k]) ELSE None

\* The node of a member with an `$id` is stored under the `$id` URI, nothing
\* is written under its pointer-path URI, and the subschema of its `items`
\* is registered under the `$id` URI with items appended.
StoredUnderId(k) ==
    /\ IdUri(callJson.m["properties"].m[k]) \in DOMAIN schemas
    /\ schemas[IdUri(callJson.m["properties"].m[k])]
         = parse(EmptyMap, push_uri(res.uri, k), callJson.m["properties"].m[k], 1)
             .reg[IdUri(callJson.m["properties"].m[k])]
    /\ \A p \in {push_uri(res.uri, k), AppendPath(res.uri, <<"properties", k>>)} :
          p \in DOMAIN schemas => p \in DOMAIN pre /\ schemas[p] = pre[p]
    /\ \A i \in DOMAIN CondsAt(schemas, IdUri(callJson.m["properties"].m[k])) :
          CondsAt(schemas, IdUri(callJson.m["properties"].m[k]))[i].c = "Items" =>
            /\ CondsAt(schemas, IdUri(callJson.m["properties"].m[k]))[i].additional
                 = Some(push_uri(IdUri(callJson.m["properties"].m[k]), "items"))
            /\ push_uri(IdUri(callJson.m["properties"].m[k]), "items") \in DOMAIN schemas

Classified(k, v) ==
    CASE k \in {"maxLength", "minLength", "minItems"} ->
            IF v.t # "num" THEN "InvalidKeywordType"
            ELSE IF ~IsU64(v) THEN "InvalidKeywordValue"
            ELSE "none"
      [] k = "type" ->
            IF v.t \notin {"str", "arr"} THEN "InvalidKeywordType"
            ELSE IF v.t = "str" /\ v.s \notin TypeNames THEN "InvalidKeywordValue"
            ELSE "none"
      [] k = "required" -> IF v.t # "arr" THEN "InvalidKeywordType" ELSE "none"
      [] OTHER -> "none"

\* C23: keyword error classification: compiling a document with one keyword
\* whose value has the wrong JSON type returns InvalidKeywordType, and with
\* one whose value has the right type and is out of range (a negative or
\* fractional maxLength, minLength or minItems, an unknown type name)
\* returns InvalidKeywordValue.
C23_KeywordErrorClasses ==
    (op = "make_schema" /\ callJson.t = "obj" /\ Cardinality(DOMAIN callJson.m) = 1) =>
        \A k \in DOMAIN callJson.m :
            Classified(k, callJson.m[k]) # "none" =>
                res = [k |-> "Err", e |-> Classified(k, callJson.m[k]), kw |-> k]

\* The outcome of element i of the array arr under Items(positional,
\* trailing): of the positional schema at its index when there is one, else
\* of the trailing schema when there is one, else Ok.
ElementOutcome(c, arr, i) ==
    IF i <= Len(c.items) THEN validate(schemas, c.items[i], arr[i])
    ELSE IF c.additional # None THEN validate(schemas, c.additional[1], arr[i])
    ELSE VOk

\* C24: Items evaluation: every Items condition of the registry accepts
\* every value that is not an array, and gives for an array the first
\* outcome that is not Ok, in index order, of its elements, each validated
\* against the positional schema at its index, else the trailing schema,
\* else nothing.  {"items": [false], "additionalItems": {"type": "string"}}
\* rejects [4, 4] with the error of element 0, {"items": [{"type":
\* "number"}]} accepts it.
C24_ItemsEvaluation ==
    /\ \A uri \in DOMAIN schemas :
          \A i \in DOMAIN CondsAt(schemas, uri) :
              CondsAt(schemas, uri)[i].c = "Items" =>
                  \A v \in Values :
                      ConditionValidate(schemas, CondsAt(schemas, uri)[i], v,
                                        Fuel(schemas, v))
                        = IF v.t # "arr" THEN VOk
                          ELSE FirstFailure([j \in 1..Len(v.a) |->
                                  ElementOutcome(CondsAt(schemas, uri)[i], v.a, j)])
    /\ Validated(DocItemsOrder, JArr(<<JNum(4), JNum(4)>>)) => out = VNoValuesPass(JNum(4))
    /\ Validated(DocItemsOpen, JArr(<<JNum(4), JNum(4)>>)) => out = VOk
    /\ Validated(DocItems, JArr(<<JNum(4), JNum(4)>>)) => out = VNoValuesPass(JNum(4))
    /\ Validated(DocItems, JStr("ab")) => out = VOk

\* [4, 4] was validated against a schema whose positional schema rejects
\* element 0 and whose trailing schema rejects element 1.
C24_Witness ==
    /\ Validated(DocItemsOrder, JArr(<<JNum(4), JNum(4)>>))
    /\ out = VNoValuesPass(JNum(4))
    /\ validate(schemas, CondsAt(schemas, res.uri)[1].additional[1], JNum(4)).r
         = "ConditionFailed"

\* The Items conditions of the root of the document just compiled.
RootItems == SelectSeq(CondsAt(schemas, res.uri), LAMBDA c : c.c = "Items")

\* C25: Items compilation: after a successful compile of an object document
\* without `$id` and `$ref`: with an array under `items` the root has
\* Items(the URIs of the compiled elements in order, the URI of the compiled
\* `additionalItems` if the key is present, else none); with a single
\* schema under `items` it has Items(no positional schema, the URI of the
\* compiled `items`) and `additionalItems` is not registered; without
\* `items` it has no Items condition, whether `additionalItems` is present
\* or not.
C25_ItemsCompilation ==
    (op = "make_schema" /\ res.k = "Ok" /\ callJson.t = "obj" /\ ~UsesId(callJson)
        /\ "$ref" \notin DOMAIN callJson.m) =>
        IF "items" \notin DOMAIN callJson.m THEN RootItems = <<>>
        ELSE IF callJson.m["items"].t = "arr"
        THEN /\ RootItems =
                  <<CItems([i \in 1..Len(callJson.m["items"].a) |->
                              push_uri(push_uri(res.uri, "items"), ToString(i - 1))],
                           IF "additionalItems" \in DOMAIN callJson.m
                           THEN Some(push_uri(res.uri, "additionalItems")) ELSE None)>>
             /\ \A i \in 1..Len(callJson.m["items"].a) :
                   push_uri(push_uri(res.uri, "items"), ToString(i - 1)) \in DOMAIN schemas
             /\ "additionalItems" \in DOMAIN callJson.m =>
                   push_uri(res.uri, "additionalItems") \in DOMAIN schemas
        ELSE /\ RootItems = <<CItems(<<>>, Some(push_uri(res.uri, "items")))>>
             /\ push_uri(res.uri, "items") \in DOMAIN schemas
             /\ push_uri(res.uri, "additionalItems") \in DOMAIN schemas =>
                   /\ push_uri(res.uri, "additionalItems") \in DOMAIN pre
                   /\ schemas[push_uri(res.uri, "additionalItems")]
                        = pre[push_uri(res.uri, "additionalItems")]

\* A document with a single schema under `items` and with `additionalItems`
\* was compiled into a new registry: two nodes, the root and `items`.
C25_Witness ==
    /\ op = "make_schema"
    /\ res.k = "Ok"
    /\ callJson = DocItemsSingle
    /\ pre = EmptyMap
    /\ DOMAIN schemas = {res.uri, push_uri(res.uri, "items")}
    /\ RootItems = <<CItems(<<>>, Some(push_uri(res.uri, "items")))>>

\* The document just compiled is an object with a string `$ref` that
\* resolves, and well-formed keywords before it.
CompiledRef ==
    /\ op = "make_schema"
    /\ callJson.t = "obj"
    /\ "$ref" \in DOMAIN callJson.m
    /\ callJson.m["$ref"].t = "str"
    /\ HeaderOk(callJson.m)
    /\ UrlJoin(EffectiveUri(callUri, callJson.m), callJson.m["$ref"].s).ok

C27_ContextNew ==
    op = "Context::new" =>
        /\ res = [k |-> "Ok", uri |-> METASCHEMA_URI]
        /\ METASCHEMA_URI \in DOMAIN schemas

\* The URIs a condition holds.
LinkedUris(c) ==
    CASE c.c = "Items" ->
            {c.items[i] : i \in DOMAIN c.items} \cup {c.additional[i] : i \in DOMAIN c.additional}
      [] c.c = "Properties" ->
            {c.props[k] : k \in DOMAIN c.props}
            \cup {c.patterns[k] : k \in DOMAIN c.patterns}
            \cup {c.additional[i] : i \in DOMAIN c.additional}
      [] c.c \in {"AllOf", "AnyOf"} -> {c.uris[i] : i \in DOMAIN c.uris}
      [] c.c = "Contains" -> {c.uri}
      [] OTHER -> {}

\* The URIs the conditions of the node under uri hold.
LinksOf(reg, uri) ==
    UNION {LinkedUris(CondsAt(reg, uri)[i]) : i \in DOMAIN CondsAt(reg, uri)}

\* C28: reference closure: every URI held in a condition of a node of the
\* registry is a key of the registry, so that a validation returns
\* BadReference(u) only when some node of the registry is a Reference to u.
C28_ReferenceClosure ==
    /\ \A uri \in DOMAIN schemas : LinksOf(schemas, uri) \subseteq DOMAIN schemas
    /\ \A uri \in DOMAIN schemas :
          \A v \in Values :
              validate(schemas, uri, v).r = "BadReference" =>
                  \E w \in DOMAIN schemas :
                      schemas[w].validator = Reference(validate(schemas, uri, v).u)

\* A second document was compiled after one with a named, a pattern and an
\* additional member schema: the root of the first still holds three URIs,
\* and the root of the second holds some of its own.
C28_Witness ==
    /\ op = "make_schema"
    /\ ncalls = 2
    /\ res.k = "Ok"
    /\ LinksOf(schemas, res.uri) # {}
    /\ \E uri \in DOMAIN pre :
          /\ uri # res.uri
          /\ Cardinality(LinksOf(schemas, uri)) = 3
          /\ LinksOf(schemas, uri) \cap LinksOf(schemas, res.uri) = {}

\* The node of the root of the object document obj compiled under id: its
\* title, its description, and its Reference or its own conditions.
RootNode(id, obj) ==
    Inner(OptString(obj, "title"), OptString(obj, "description"),
          IF "$ref" \in DOMAIN obj THEN Reference(UrlJoin(id, obj["$ref"].s).url)
          ELSE Conditions(ParseConditions(EmptyMap, id, obj, 0).val))

RECURSIVE DeclaredIds(_)
DeclaredIds(json) ==
    CASE json.t = "obj" ->
            (IF "$id" \in DOMAIN json.m /\ json.m["$id"].t = "str"
                /\ UrlParse(json.m["$id"].s).ok
             THEN {IdUri(json)} ELSE {})
            \cup UNION {DeclaredIds(json.m[k]) : k \in DOMAIN json.m}
      [] json.t = "arr" -> UNION {DeclaredIds(json.a[i]) : i \in 1..Len(json.a)}
      [] OTHER -> {}

\* u is b, or b with components appended to its JSON pointer.
DerivedFrom(u, b) ==
    \/ u = b
    \/ /\ u.base = b.base
       /\ u.kind = "ptr"
       /\ Len(u.ptr) > Len(IF b.kind = "ptr" THEN b.ptr ELSE DefaultPtr)
       /\ SubSeq(u.ptr, 1, Len(IF b.kind = "ptr" THEN b.ptr ELSE DefaultPtr))
            = (IF b.kind = "ptr" THEN b.ptr ELSE DefaultPtr)

\* The keys the compile call just made may write.
InFrame(u) ==
    \E b \in {callUri} \cup DeclaredIds(callJson) : DerivedFrom(u, b)

\* The keys the compile call just made has added or given another node.
Written == {u \in DOMAIN schemas : u \notin DOMAIN pre \/ schemas[u] # pre[u]}

\* The URIs a validation that starts in S looks up in reg: S, the URIs the
\* conditions of its nodes hold and the targets of its References, and so on.
RECURSIVE ReachFrom(_, _)
ReachFrom(reg, S) ==
    IF \A u \in S \cap DOMAIN reg :
          /\ LinksOf(reg, u) \subseteq S
          /\ reg[u].validator.k = "Reference" => reg[u].validator.ref \in S
    THEN S
    ELSE ReachFrom(reg,
            S \cup UNION {LinksOf(reg, u) : u \in S \cap DOMAIN reg}
              \cup {reg[u].validator.ref :
                      u \in {w \in S \cap DOMAIN reg : reg[w].validator.k = "Reference"}})

\* Every key of the registry outside the frame of the call is a key from
\* before the call, with the node it had, and no key was removed.
FrameKept ==
    /\ DOMAIN pre \subseteq DOMAIN schemas
    /\ \A u \in DOMAIN schemas : ~InFrame(u) => u \in DOMAIN pre /\ schemas[u] = pre[u]

\* C30 (as stated): a compile call writes keys of its frame only (the base
\* URI, the declared `$id`s, and the pointer paths derived from them), and
\* so the validation results of the schemas registered before it outside
\* the frame are what they were.
C30_CompileFrame_AllResults ==
    op = "make_schema" =>
        /\ FrameKept
        /\ \A u \in DOMAIN pre :
              ~InFrame(u) =>
                  \A v \in Values : validate(schemas, u, v) = validate(pre, u, v)

\* C30 (amended): a compile call writes keys of its frame only, and the
\* validation results of a schema registered before it are what they were
\* when no URI the schema reaches, through the URIs of its conditions and
\* its `$ref`s, was written by the call.
C30_CompileFrame ==
    op = "make_schema" =>
        /\ FrameKept
        /\ \A u \in DOMAIN pre :
              ReachFrom(pre, {u}) \cap Written = {} =>
                  \A v \in Values : validate(schemas, u, v) = validate(pre, u, v)

\* A second document, with children, was compiled under another base URI
\* than the first: the nodes of the first are what they were, and its root,
\* which has children of its own, reaches none of the keys written.
C30_Witness ==
    /\ op = "make_schema"
    /\ ncalls = 2
    /\ res.k = "Ok"
    /\ Cardinality(Written) >= 2
    /\ \E u \in DOMAIN pre :
          /\ ~InFrame(u)
          /\ LinksOf(pre, u) # {}
          /\ ReachFrom(pre, {u}) \cap Written = {}

====
